---- MODULE Spec2Model ----
(***************************************************************************)
(* Vehicle scraper / marketplace lister: the extraction-and-normalization  *)
(* pipeline (ScrapingEngine, site adapters, photo collector, normalizer)   *)
(* and the bounded history store, modelled from the TypeScript sources.    *)
(*                                                                         *)
(* JavaScript strings are TLA+ strings; TLC evaluates Len, SubSeq and \o   *)
(* on them, so the string functions below work character by character.    *)
(* An optional JavaScript value is a tagged record: U (undefined),         *)
(* N(n) (a number), S(s) (a string), NaN.                                  *)
(***************************************************************************)
EXTENDS Integers, Sequences, FiniteSets, TLC

VARIABLES nz, eng, ad, ph, uf, st, rq, pr, wt, fb, db, bg, ct

vars == <<nz, eng, ad, ph, uf, st, rq, pr, wt, fb, db, bg, ct>>

\* A component that takes no part in the specification being checked.
Off == [pc |-> "off"]

-----------------------------------------------------------------------------
(* JavaScript values *)

U == [t |-> "undef"]
NaN == [t |-> "nan"]
N(n) == [t |-> "num", v |-> n]
S(s) == [t |-> "str", v |-> s]

\* JavaScript truthiness: undefined, NaN, 0 and "" are falsy.
Truthy(x) ==
  CASE x.t = "undef" -> FALSE
    [] x.t = "nan" -> FALSE
    [] x.t = "num" -> x.v # 0
    [] x.t = "str" -> x.v # ""

-----------------------------------------------------------------------------
(* String primitives (String.prototype.* and the regex character classes) *)

UpperAlpha == "ABCDEFGHIJKLMNOPQRSTUVWXYZ"
LowerAlpha == "abcdefghijklmnopqrstuvwxyz"
Digits == "0123456789"
Whitespace == " \t\n"

Ch(s, i) == SubSeq(s, i, i)

\* s.includes(sub)
Includes(s, sub) ==
  \E i \in 1..(Len(s) - Len(sub) + 1) : SubSeq(s, i, i + Len(sub) - 1) = sub

\* s.indexOf(sub) + 1, 0 when absent
IndexOf(s, sub) ==
  IF Includes(s, sub)
  THEN CHOOSE i \in 1..(Len(s) - Len(sub) + 1) :
         /\ SubSeq(s, i, i + Len(sub) - 1) = sub
         /\ \A j \in 1..(i - 1) : SubSeq(s, j, j + Len(sub) - 1) # sub
  ELSE 0

StartsWith(s, p) == Len(p) <= Len(s) /\ SubSeq(s, 1, Len(p)) = p
EndsWith(s, p) == Len(p) <= Len(s) /\ SubSeq(s, Len(s) - Len(p) + 1, Len(s)) = p

\* The characters of s, as a set.
CharSet(s) == {Ch(s, i) : i \in 1..Len(s)}
UpperSet == CharSet(UpperAlpha)
LowerSet == CharSet(LowerAlpha)
DigitSet == CharSet(Digits)
SpaceSet == CharSet(Whitespace)
LowerOf == [c \in UpperSet |-> Ch(LowerAlpha, IndexOf(UpperAlpha, c))]
UpperOf == [c \in LowerSet |-> Ch(UpperAlpha, IndexOf(LowerAlpha, c))]
DigitOf == [c \in DigitSet |-> IndexOf(Digits, c) - 1]

IsDigit(c) == c \in DigitSet
IsUpper(c) == c \in UpperSet
IsLower(c) == c \in LowerSet
IsLetter(c) == IsUpper(c) \/ IsLower(c)
IsSpace(c) == c \in SpaceSet                               \* \s
IsWordChar(c) == IsLetter(c) \/ IsDigit(c) \/ c = "_"      \* \w

LowerCh(c) == IF IsUpper(c) THEN LowerOf[c] ELSE c
UpperCh(c) == IF IsLower(c) THEN UpperOf[c] ELSE c

RECURSIVE ToLowerFrom(_, _)
ToLowerFrom(s, i) ==
  IF i > Len(s) THEN "" ELSE LowerCh(Ch(s, i)) \o ToLowerFrom(s, i + 1)
\* s.toLowerCase()
ToLower(s) == ToLowerFrom(s, 1)

RECURSIVE ToUpperFrom(_, _)
ToUpperFrom(s, i) ==
  IF i > Len(s) THEN "" ELSE UpperCh(Ch(s, i)) \o ToUpperFrom(s, i + 1)
\* s.toUpperCase()
ToUpper(s) == ToUpperFrom(s, 1)

RECURSIVE TrimLeft(_)
TrimLeft(s) ==
  IF Len(s) > 0 /\ IsSpace(Ch(s, 1)) THEN TrimLeft(SubSeq(s, 2, Len(s))) ELSE s
RECURSIVE TrimRight(_)
TrimRight(s) ==
  IF Len(s) > 0 /\ IsSpace(Ch(s, Len(s)))
  THEN TrimRight(SubSeq(s, 1, Len(s) - 1)) ELSE s
\* s.trim()
Trim(s) == TrimRight(TrimLeft(s))

\* s.replace(/[chars]/g, '')
RECURSIVE StripChars(_, _)
StripChars(s, chars) ==
  IF Len(s) = 0 THEN ""
  ELSE (IF Includes(chars, Ch(s, 1)) THEN "" ELSE Ch(s, 1))
         \o StripChars(SubSeq(s, 2, Len(s)), chars)

\* s.replace(/[^chars]/g, '')
RECURSIVE KeepChars(_, _)
KeepChars(s, chars) ==
  IF Len(s) = 0 THEN ""
  ELSE (IF Includes(chars, Ch(s, 1)) THEN Ch(s, 1) ELSE "")
         \o KeepChars(SubSeq(s, 2, Len(s)), chars)

\* s.replace(/\s+/g, ' ')
RECURSIVE CollapseSpaces(_)
CollapseSpaces(s) ==
  IF Len(s) = 0 THEN ""
  ELSE IF IsSpace(Ch(s, 1))
       THEN " " \o CollapseSpaces(TrimLeft(s))
       ELSE Ch(s, 1) \o CollapseSpaces(SubSeq(s, 2, Len(s)))

\* s.replace(/lit/g, '') or, with ci, s.replace(/lit/gi, ''); lit is lower case
RECURSIVE RemoveAll(_, _, _)
RemoveAll(s, lit, ci) ==
  LET hay == IF ci THEN ToLower(s) ELSE s
      i == IndexOf(hay, lit)
  IN IF i = 0 THEN s
     ELSE SubSeq(s, 1, i - 1) \o RemoveAll(SubSeq(s, i + Len(lit), Len(s)), lit, ci)

\* the length of the leading run of digits of s
RECURSIVE DigitRun(_)
DigitRun(s) ==
  IF Len(s) > 0 /\ IsDigit(Ch(s, 1)) THEN 1 + DigitRun(SubSeq(s, 2, Len(s))) ELSE 0

RECURSIVE DigitsValue(_)
DigitsValue(s) ==
  IF Len(s) = 0 THEN 0
  ELSE 10 * DigitsValue(SubSeq(s, 1, Len(s) - 1)) + DigitOf[Ch(s, Len(s))]

\* parseInt(s): leading white space is skipped, a sign is read, then the
\* longest run of decimal digits; NaN when there is none. (No input of the
\* model starts with the hexadecimal prefix 0x.)
ParseInt(s) ==
  LET t == TrimLeft(s)
      negative == Len(t) > 0 /\ Ch(t, 1) = "-"
      signed == Len(t) > 0 /\ Ch(t, 1) \in {"-", "+"}
      digits(d) == IF DigitRun(d) = 0 THEN NaN
                   ELSE N((IF negative THEN -1 ELSE 1)
                            * DigitsValue(SubSeq(d, 1, DigitRun(d))))
  IN digits(IF signed THEN SubSeq(t, 2, Len(t)) ELSE t)

-----------------------------------------------------------------------------
(* core/normalize: normalizeVehicleData and its helpers *)

\* titleCase: lower-case the text, then upper-case every \w that follows a
\* word boundary (the start of the text or a non-\w character).
RECURSIVE TitleFrom(_, _)
TitleFrom(s, i) ==
  IF i > Len(s) THEN ""
  ELSE (IF IsWordChar(Ch(s, i)) /\ (i = 1 \/ ~IsWordChar(Ch(s, i - 1)))
        THEN UpperCh(Ch(s, i)) ELSE Ch(s, i)) \o TitleFrom(s, i + 1)
titleCase(text) == TitleFrom(ToLower(text), 1)

\* The body style table, in declaration order (Object.entries order).
bodyStyleMap ==
  << <<"sport utility", "SUV">>, <<"sports utility vehicle", "SUV">>,
     <<"pickup truck", "Truck">>, <<"pick-up", "Truck">>,
     <<"station wagon", "Wagon">>, <<"convertible", "Convertible">>,
     <<"coupe", "Coupe">>, <<"sedan", "Sedan">>, <<"hatchback", "Hatchback">>,
     <<"minivan", "Minivan">>, <<"van", "Van">> >>

\* bodyStyle is title-cased first; the first table key its lower-case form
\* includes replaces it.
normalizeBodyStyle(bodyStyle) ==
  LET titled == titleCase(Trim(bodyStyle))
      lower == ToLower(titled)
      hits == {k \in 1..Len(bodyStyleMap) : Includes(lower, bodyStyleMap[k][1])}
  IN IF hits = {} THEN titled
     ELSE bodyStyleMap[CHOOSE k \in hits : \A j \in hits : k <= j][2]

normalizeTransmission(transmission) ==
  LET cleaned == Trim(ToLower(transmission))
  IN IF Includes(cleaned, "automatic") \/ Includes(cleaned, "auto") THEN "Automatic"
     ELSE IF Includes(cleaned, "manual") \/ Includes(cleaned, "stick") THEN "Manual"
     ELSE IF Includes(cleaned, "cvt") THEN "CVT"
     ELSE titleCase(transmission)

normalizeDrivetrain(drivetrain) ==
  LET cleaned == Trim(ToLower(drivetrain))
  IN IF Includes(cleaned, "front") \/ Includes(cleaned, "fwd") THEN "FWD"
     ELSE IF Includes(cleaned, "rear") \/ Includes(cleaned, "rwd") THEN "RWD"
     ELSE IF Includes(cleaned, "all") \/ Includes(cleaned, "awd") THEN "AWD"
     ELSE IF Includes(cleaned, "4wd") \/ Includes(cleaned, "4x4") THEN "4WD"
     ELSE titleCase(drivetrain)

normalizeFuelType(fuelType) ==
  LET cleaned == Trim(ToLower(fuelType))
  IN IF Includes(cleaned, "gasoline") \/ Includes(cleaned, "gas")
          \/ Includes(cleaned, "petrol") THEN "Gasoline"
     ELSE IF Includes(cleaned, "diesel") THEN "Diesel"
     ELSE IF Includes(cleaned, "electric") \/ Includes(cleaned, "ev") THEN "Electric"
     ELSE IF Includes(cleaned, "hybrid") THEN "Hybrid"
     ELSE IF Includes(cleaned, "plug") THEN "Plug-in Hybrid"
     ELSE titleCase(fuelType)

\* s.replace(/\bword\b/g, repl) or, with ci, /\bword\b/gi; word is \w-only and,
\* with ci, lower case.
RECURSIVE ReplaceWordFrom(_, _, _, _, _)
ReplaceWordFrom(s, i, word, repl, ci) ==
  IF i > Len(s) THEN ""
  ELSE LET n == Len(word)
           here == SubSeq(s, i, i + n - 1)
           hit == /\ i + n - 1 <= Len(s)
                  /\ (IF ci THEN ToLower(here) ELSE here) = word
                  /\ (i = 1 \/ ~IsWordChar(Ch(s, i - 1)))
                  /\ (i + n > Len(s) \/ ~IsWordChar(Ch(s, i + n)))
       IN IF hit THEN repl \o ReplaceWordFrom(s, i + n, word, repl, ci)
          ELSE Ch(s, i) \o ReplaceWordFrom(s, i + 1, word, repl, ci)
ReplaceWord(s, word, repl, ci) == ReplaceWordFrom(s, 1, word, repl, ci)

normalizeEngine(engine) ==
  LET n0 == CollapseSpaces(Trim(engine))
      n1 == ReplaceWord(n0, "L", "Liter", FALSE)
      n2 == ReplaceWord(n1, "cyl", "Cylinder", TRUE)
      n3 == ReplaceWord(n2, "turbo", "Turbo", TRUE)
  IN ReplaceWord(n3, "supercharged", "Supercharged", TRUE)

\* [-.\s]?
SepLen(s, i) == IF i <= Len(s) /\ (Ch(s, i) = "-" \/ Ch(s, i) = "." \/ IsSpace(Ch(s, i)))
                THEN 1 ELSE 0
AllDigits(s, i, n) == i + n - 1 <= Len(s) /\ \A k \in i..(i + n - 1) : IsDigit(Ch(s, k))

\* The length of the match of /call \d{3}[-.\s]?\d{3}[-.\s]?\d{4}/i at i, 0 if none.
CallMatchLen(s, i) ==
  IF i + 4 <= Len(s) /\ ToLower(SubSeq(s, i, i + 4)) = "call " /\ AllDigits(s, i + 5, 3)
  THEN LET a == i + 8 + SepLen(s, i + 8)
       IN IF AllDigits(s, a, 3)
          THEN LET b == a + 3 + SepLen(s, a + 3)
               IN IF AllDigits(s, b, 4) THEN b + 4 - i ELSE 0
          ELSE 0
  ELSE 0

\* s.replace(/call \d{3}[-.\s]?\d{3}[-.\s]?\d{4}/gi, '')
RECURSIVE RemoveCallsFrom(_, _)
RemoveCallsFrom(s, i) ==
  IF i > Len(s) THEN ""
  ELSE IF CallMatchLen(s, i) > 0 THEN RemoveCallsFrom(s, i + CallMatchLen(s, i))
  ELSE Ch(s, i) \o RemoveCallsFrom(s, i + 1)

\* s.replace(/visit us at .+/gi, ''): the text is one line once white space is
\* collapsed, so the match runs to the end of the text.
RemoveVisitUs(s) ==
  LET i == IndexOf(ToLower(s), "visit us at ")
  IN IF i > 0 /\ i + 12 <= Len(s) THEN SubSeq(s, 1, i - 1) ELSE s

cleanDescription(description) ==
  LET c0 == CollapseSpaces(Trim(description))
      c1 == RemoveCallsFrom(c0, 1)
      c2 == RemoveVisitUs(c1)
      c3 == RemoveAll(c2, "financing available", TRUE)
      c4 == RemoveAll(c3, "trade-ins welcome", TRUE)
      c5 == RemoveAll(c4, "extended warranty", TRUE)
      c6 == Trim(CollapseSpaces(c5))
  IN IF c6 # "" /\ ~(EndsWith(c6, ".") \/ EndsWith(c6, "!") \/ EndsWith(c6, "?"))
     THEN c6 \o "." ELSE c6

VinAlphabet == "ABCDEFGHJKLMNPRSTUVWXYZ0123456789"

\* vin.toUpperCase().replace(/[^A-HJ-NPR-Z0-9]/g, ''), undefined unless 17 long
normalizeVin(vin) ==
  LET v == KeepChars(ToUpper(vin), VinAlphabet)
  IN IF Len(v) # 17 THEN U ELSE S(v)

\* price / mileage / year: a string is stripped of the given characters and
\* parsed; NaN becomes undefined. A number is kept.
normalizeNumber(x, strip) ==
  IF x.t = "str"
  THEN LET n == ParseInt(StripChars(x.v, strip))
       IN IF n.t = "nan" THEN U ELSE n
  ELSE x

VehicleFields ==
  {"year", "make", "model", "trim", "bodyStyle", "price", "mileage",
   "exteriorColor", "interiorColor", "transmission", "drivetrain", "engine",
   "fuelType", "vin", "stockNumber", "description", "condition"}

EmptyVehicle == [f \in VehicleFields |-> U]

normalizeVehicleData(vehicle) ==
  [f \in VehicleFields |->
    LET x == vehicle[f] IN
    CASE f \in {"make", "model", "trim", "exteriorColor", "interiorColor"} ->
           IF Truthy(x) THEN S(titleCase(Trim(x.v))) ELSE x
      [] f = "bodyStyle" -> IF Truthy(x) THEN S(normalizeBodyStyle(x.v)) ELSE x
      [] f = "price" -> IF Truthy(x) THEN normalizeNumber(x, "$, \t\n") ELSE x
      [] f = "mileage" -> IF Truthy(x) THEN normalizeNumber(x, ", \t\n") ELSE x
      [] f = "year" -> IF Truthy(x) THEN normalizeNumber(x, "") ELSE x
      [] f = "transmission" -> IF Truthy(x) THEN S(normalizeTransmission(x.v)) ELSE x
      [] f = "drivetrain" -> IF Truthy(x) THEN S(normalizeDrivetrain(x.v)) ELSE x
      [] f = "fuelType" -> IF Truthy(x) THEN S(normalizeFuelType(x.v)) ELSE x
      [] f = "engine" -> IF Truthy(x) THEN S(normalizeEngine(x.v)) ELSE x
      [] f = "vin" -> IF Truthy(x) THEN normalizeVin(x.v) ELSE x
      [] f = "description" -> IF Truthy(x) THEN S(cleanDescription(x.v)) ELSE x
      [] f = "condition" -> IF Truthy(x) THEN x ELSE S("Used")
      [] OTHER -> x]

-----------------------------------------------------------------------------
(* The normalizer applied to raw adapter output (Adapter -> Normalizer      *)
(* boundary), and applied again to its own output.                          *)

RawSamples ==
  { <<"make", S("honda")>>, <<"make", S("  MERCEDES-BENZ ")>>,
    <<"model", S("civic")>>, <<"trim", S("lx sport")>>,
    <<"bodyStyle", S("sport utility")>>, <<"bodyStyle", S("SUV")>>,
    <<"bodyStyle", S("4dr sedan")>>, <<"bodyStyle", S("Crossover")>>,
    <<"bodyStyle", S("pickup truck")>>,
    <<"price", S("$25,999")>>, <<"price", S("not-a-number")>>, <<"price", N(25999)>>,
    <<"price", S("$ 1,250,000")>>, <<"price", S("-500")>>,
    <<"mileage", S("15,234 miles")>>, <<"mileage", N(15234)>>,
    <<"mileage", S("$15,234")>>, <<"mileage", S("unknown")>>,
    <<"year", S("2023")>>, <<"year", N(2023)>>, <<"year", S("n/a")>>,
    <<"year", S("2,023")>>, <<"year", S(" 2023 ")>>,
    <<"exteriorColor", S("sonic gray pearl")>>, <<"interiorColor", S("BLACK")>>,
    <<"transmission", S("CVT Automatic")>>, <<"transmission", S("6-speed stick")>>,
    <<"transmission", S("Automatic CVT")>>, <<"transmission", S("automatic transmission")>>,
    <<"transmission", S("cvt")>>, <<"transmission", S("dual clutch")>>,
    <<"drivetrain", S("front wheel drive")>>, <<"drivetrain", S("4x4")>>,
    <<"drivetrain", S("All Wheel Drive")>>, <<"drivetrain", S("quattro")>>,
    <<"fuelType", S("gas")>>, <<"fuelType", S("plug-in")>>,
    <<"fuelType", S("flex fuel")>>, <<"fuelType", S("EV")>>,
    <<"engine", S("2.0 L  4 cyl turbo")>>, <<"engine", S("V6")>>,
    <<"vin", S("1hg-cm82633a004352")>>, <<"vin", S("1HGCM82633A004352")>>,
    <<"vin", S("short")>>, <<"vin", S("1HGCM82633A00435I")>>,
    <<"vin", S("1HGCM82633A004352ABC")>>, <<"vin", S(" 1Hg cm8-2633.a00/4352 ")>>,
    <<"vin", S("")>>,
    <<"description", S("Great car.  Call 555-123-4567 today")>>,
    <<"description", S("Clean title, financing extended warranty available")>>,
    <<"description", S("One owner")>>,
    <<"stockNumber", S("A123")>>, <<"condition", S("New")>> }

\* Raw adapter output: any two of the sample fields set (or one, or none).
RawInputs ==
  {EmptyVehicle} \cup
  {[[EmptyVehicle EXCEPT ![p[1]] = p[2]] EXCEPT ![q[1]] = q[2]] :
     p \in RawSamples, q \in RawSamples}

NormInit ==
  /\ nz \in {[pc |-> "raw", raw |-> r, out |-> EmptyVehicle, again |-> EmptyVehicle] :
               r \in RawInputs}
  /\ eng = Off /\ ad = Off /\ ph = Off /\ uf = Off /\ st = Off /\ rq = Off /\ pr = Off
  /\ wt = Off /\ fb = Off
  /\ db = Off /\ bg = Off /\ ct = Off

\* normalizeVehicleData(raw)
Normalize ==
  /\ nz.pc = "raw"
  /\ nz' = [nz EXCEPT !.pc = "normalized", !.out = normalizeVehicleData(nz.raw)]
  /\ UNCHANGED <<eng, ad, ph, uf, st, rq, pr, wt, fb, db, bg, ct>>

\* normalizeVehicleData(normalizeVehicleData(raw))
Renormalize ==
  /\ nz.pc = "normalized"
  /\ nz' = [nz EXCEPT !.pc = "renormalized", !.again = normalizeVehicleData(nz.out)]
  /\ UNCHANGED <<eng, ad, ph, uf, st, rq, pr, wt, fb, db, bg, ct>>

NormNext == Normalize \/ Renormalize

SpecNorm == NormInit /\ [][NormNext]_vars

\* C5: normalization is idempotent: normalizing a normalized vehicle yields
\* the same vehicle, field by field.
C5_Idempotent ==
  nz.pc = "renormalized" => \A f \in VehicleFields : nz.again[f] = nz.out[f]

-----------------------------------------------------------------------------
(* core/scrape: ScrapingEngine, adapter selection and post-hoc validation *)

\* new URL(url).hostname / window.location.hostname: the text between "://"
\* and the next "/".
HostnameOf(url) ==
  LET a == IndexOf(url, "://")
      rest == SubSeq(url, a + 3, Len(url))
      b == IndexOf(rest, "/")
  IN IF b = 0 THEN rest ELSE SubSeq(rest, 1, b - 1)

\* /lit\d+/.test(s)
TestLitDigits(s, lit) ==
  \E i \in 1..(Len(s) - Len(lit)) :
    SubSeq(s, i, i + Len(lit) - 1) = lit /\ IsDigit(Ch(s, i + Len(lit)))

\* The site-specific adapters in registration order (the constructor's array).
SiteAdapters == <<"AutoTrader", "Cars.com", "CarGurus", "Dealer.com">>
AdapterNames == {"AutoTrader", "Cars.com", "CarGurus", "Dealer.com", "Generic"}

hostnames(adapter) ==
  CASE adapter = "AutoTrader" -> <<"autotrader.com", "www.autotrader.com">>
    [] adapter = "Cars.com" -> <<"cars.com", "www.cars.com">>
    [] adapter = "CarGurus" -> <<"cargurus.com", "www.cargurus.com">>
    [] adapter = "Dealer.com" -> <<"dealer.com", "www.dealer.com">>
    [] adapter = "Generic" -> <<"*">>

vehicleKeywords ==
  <<"vehicle", "car", "auto", "inventory", "details", "listing", "vdp",
    "used-car", "new-car">>

\* adapter.isVehiclePage(url); the site regexes carry the i flag.
isVehiclePage(adapter, url) ==
  LET u == ToLower(url) IN
  CASE adapter = "AutoTrader" ->
         Includes(u, "/cars-for-sale/vehicledetails.xhtml") \/ TestLitDigits(u, "/vehicle/")
    [] adapter = "Cars.com" ->
         Includes(u, "/vehicledetail/") \/ Includes(u, "/listing/") \/ Includes(u, "/vehicle/")
    [] adapter = "CarGurus" -> Includes(u, "/cars/l-") \/ TestLitDigits(u, "/vehicle/")
    [] adapter = "Dealer.com" ->
         Includes(u, "/inventory/") \/ Includes(u, "/vehicle/") \/ Includes(u, "/vdp/")
    [] adapter = "Generic" ->
         \E k \in 1..Len(vehicleKeywords) : Includes(u, vehicleKeywords[k])

\* s.replace(/^www\./, '')
StripWww(s) == IF StartsWith(s, "www.") THEN SubSeq(s, 5, Len(s)) ELSE s

matchesHostname(hostname, adapterHostnames) ==
  \E k \in 1..Len(adapterHostnames) :
    \/ adapterHostnames[k] = "*"
    \/ StripWww(hostname) = StripWww(adapterHostnames[k])
    \/ EndsWith(StripWww(hostname), "." \o StripWww(adapterHostnames[k]))

\* A findAdapter that tries the generic keyword heuristics first.
findAdapter_GenericFirst(hostname, url) ==
  LET fits == {k \in 1..Len(SiteAdapters) :
                 /\ matchesHostname(hostname, hostnames(SiteAdapters[k]))
                 /\ isVehiclePage(SiteAdapters[k], url)}
  IN IF isVehiclePage("Generic", url) THEN "Generic"
     ELSE IF fits # {} THEN SiteAdapters[CHOOSE k \in fits : \A j \in fits : k <= j]
     ELSE "none"

\* The first site adapter whose hostnames match and whose isVehiclePage holds,
\* else the generic adapter when its isVehiclePage holds, else null ("none").
findAdapter(hostname, url) ==
  LET fits == {k \in 1..Len(SiteAdapters) :
                 /\ matchesHostname(hostname, hostnames(SiteAdapters[k]))
                 /\ isVehiclePage(SiteAdapters[k], url)}
  IN IF fits # {} THEN SiteAdapters[CHOOSE k \in fits : \A j \in fits : k <= j]
     ELSE IF isVehiclePage("Generic", url) THEN "Generic"
     ELSE "none"

\* array.join(sep)
RECURSIVE Join(_, _)
Join(seq, sep) ==
  IF Len(seq) = 0 THEN ""
  ELSE IF Len(seq) = 1 THEN seq[1]
  ELSE seq[1] \o sep \o Join(Tail(seq), sep)

\* /^[A-HJ-NPR-Z0-9]{17}$/.test(vin)
vinRegexTest(vin) == Len(vin) = 17 /\ KeepChars(vin, VinAlphabet) = vin

requiredFields == <<"year", "make", "model", "price">>

MinYear == 1950
MinPrice == 100
MaxPrice == 1000000
MaxMileage == 1000000

\* The warnings validateScrapeResult pushes, in order.
validationWarnings(result, currentYear) ==
  LET vehicle == result.vehicle
      missingFields == SelectSeq(requiredFields, LAMBDA f : ~Truthy(vehicle[f]))
  IN (IF Len(missingFields) > 0
      THEN <<"Missing required fields: " \o Join(missingFields, ", ")>> ELSE <<>>)
     \o (IF Truthy(vehicle.vin) /\ ~vinRegexTest(vehicle.vin.v)
         THEN <<"VIN format appears invalid">> ELSE <<>>)
     \o (IF Truthy(vehicle.year)
            /\ (vehicle.year.v < MinYear \/ vehicle.year.v > currentYear + 1)
         THEN <<"Vehicle year appears out of range">> ELSE <<>>)
     \o (IF Truthy(vehicle.price)
            /\ (vehicle.price.v < MinPrice \/ vehicle.price.v > MaxPrice)
         THEN <<"Price appears out of normal range">> ELSE <<>>)
     \o (IF Truthy(vehicle.mileage)
            /\ (vehicle.mileage.v < 0 \/ vehicle.mileage.v > MaxMileage)
         THEN <<"Mileage appears out of normal range">> ELSE <<>>)
     \o (IF Len(result.photos) = 0 THEN <<"No photos found">> ELSE <<>>)

\* A validateScrapeResult that drops an out-of-range price.
validateScrapeResult_DropsPrice(result, currentYear) ==
  [result EXCEPT !.warnings = @ \o validationWarnings(result, currentYear),
                 !.vehicle.price = IF Truthy(@) /\ (@.v < MinPrice \/ @.v > MaxPrice)
                                   THEN U ELSE @]

\* validateScrapeResult mutates the result in place: warnings.push only.
validateScrapeResult(result, currentYear) ==
  [result EXCEPT !.warnings = @ \o validationWarnings(result, currentYear)]

-----------------------------------------------------------------------------
(* ScrapingEngine.scrapeCurrentPage on a page of the browser tab *)

\* window.location.href of the tab the content script runs in.
PageUrls ==
  { "https://www.autotrader.com/cars-for-sale/vehicledetails.xhtml?listingId=7",
    "https://www.autotrader.com/vehicle/123",
    "https://www.autotrader.com/vehicle/new",
    "https://www.cars.com/vehicledetail/9f3/",
    "https://www.cars.com/research/",
    "https://www.cargurus.com/Cars/l-Used-Honda-Civic",
    "https://www.cargurus.com/help",
    "https://smith.dealer.com/inventory/used/",
    "https://www.dealer.com/contact",
    "https://example.org/about",
    "https://example.org/used-car/42",
    "https://notcars.com/listing/5",
    "https://shop.example.net/VDP/88" }

\* new Date().getFullYear() at the time of the scrape.
ClockYears == {2026, 2039}

idPrefix(adapter) ==
  CASE adapter = "AutoTrader" -> "autotrader"
    [] adapter = "Cars.com" -> "cars_com"
    [] adapter = "CarGurus" -> "cargurus"
    [] adapter = "Dealer.com" -> "dealer_com"
    [] adapter = "Generic" -> "generic"

Photo(url, w, h, main) == [url |-> url, width |-> w, height |-> h, isMain |-> main]

\* What a selected adapter's scrape() may resolve to: a normalized vehicle
\* (any field possibly absent or implausible), photos and adapter warnings.
ScrapedVehicles ==
  {[EmptyVehicle EXCEPT !.year = y, !.make = mm[1], !.model = mm[2], !.price = p,
                        !.mileage = m, !.vin = v, !.condition = S("Used")] :
     y \in {U, N(1949), N(2023), N(2040)},
     mm \in {<<U, U>>, <<S("Honda"), U>>, <<S("Honda"), S("Civic")>>},
     p \in {U, N(0), N(50), N(25999), N(2000000)},
     m \in {U, N(0), N(15234), N(2000000)},
     v \in {U, S("1HGCM82633A004352")}}

ScrapedPhotos ==
  {<<>>, <<Photo("https://cdn.example.com/a.jpg", N(1024), N(768), TRUE)>>}

ScrapedWarnings == {<<>>, <<"VIN not found", "Description not found">>}

NoResult == [none |-> TRUE]

EngInit ==
  /\ eng \in {[pc |-> "idle", url |-> u, year |-> y, adapter |-> "none",
               invoked |-> <<>>, outcome |-> "pending", error |-> "",
               scraped |-> NoResult, result |-> NoResult] :
                u \in PageUrls, y \in ClockYears}
  /\ nz = Off /\ ad = Off /\ ph = Off /\ uf = Off /\ st = Off /\ rq = Off /\ pr = Off
  /\ wt = Off /\ fb = Off
  /\ db = Off /\ bg = Off /\ ct = Off

\* scrapeCurrentPage: findAdapter returned null; the error is thrown before
\* any adapter's scrape() is called.
EngNoAdapter ==
  /\ eng.pc = "idle"
  /\ findAdapter(HostnameOf(eng.url), eng.url) = "none"
  /\ eng' = [eng EXCEPT !.pc = "done", !.adapter = "none", !.outcome = "threw",
                        !.error = "No suitable adapter found for this site"]
  /\ UNCHANGED <<nz, ad, ph, uf, st, rq, pr, wt, fb, db, bg, ct>>

\* scrapeCurrentPage: the selected adapter's scrape() resolves; the result is
\* validated in place and returned.
EngScrapeReturns ==
  /\ eng.pc = "idle"
  /\ LET adapter == findAdapter(HostnameOf(eng.url), eng.url) IN
     /\ adapter # "none"
     /\ \E vehicle \in ScrapedVehicles, photos \in ScrapedPhotos,
           warnings \in ScrapedWarnings :
          LET r == [vehicle |-> vehicle, dealer |-> [name |-> S("Honda of Downtown")],
                    photos |-> photos, sourceUrl |-> eng.url, scrapedAt |-> 1,
                    warnings |-> warnings,
                    id |-> idPrefix(adapter) \o "_1_k3j9x2m1a"]
          IN eng' = [eng EXCEPT !.pc = "done", !.adapter = adapter,
                                !.invoked = <<adapter>>, !.outcome = "returned",
                                !.scraped = r,
                                !.result = validateScrapeResult(r, eng.year)]
  /\ UNCHANGED <<nz, ad, ph, uf, st, rq, pr, wt, fb, db, bg, ct>>

\* scrapeCurrentPage: the selected adapter's scrape() rejects; the error is
\* logged and rethrown as it is.
EngScrapeThrows ==
  /\ eng.pc = "idle"
  /\ LET adapter == findAdapter(HostnameOf(eng.url), eng.url) IN
     /\ adapter # "none"
     /\ eng' = [eng EXCEPT !.pc = "done", !.adapter = adapter,
                           !.invoked = <<adapter>>, !.outcome = "threw",
                           !.error = adapter \o " scraping failed: Cannot read properties of null"]
  /\ UNCHANGED <<nz, ad, ph, uf, st, rq, pr, wt, fb, db, bg, ct>>

EngNext == EngNoAdapter \/ EngScrapeReturns \/ EngScrapeThrows

SpecEngine == EngInit /\ [][EngNext]_vars

\* C1: the selected adapter is the first site-specific adapter, in
\* registration order, whose hostnames match and whose isVehiclePage(url) is
\* true; failing that the Generic adapter exactly when its isVehiclePage(url)
\* is true; failing that none, and scrapeCurrentPage throws 'No suitable
\* adapter found' without calling any scrape(). A cars.com URL matching the
\* Cars.com pattern never goes to the Generic adapter.
C1_AdapterSelection ==
  eng.pc = "done" =>
    LET h == HostnameOf(eng.url)
        Fits(k) == /\ matchesHostname(h, hostnames(SiteAdapters[k]))
                   /\ isVehiclePage(SiteAdapters[k], eng.url)
        anySite == \E k \in 1..Len(SiteAdapters) : Fits(k)
        generic == isVehiclePage("Generic", eng.url)
    IN /\ \A k \in 1..Len(SiteAdapters) :
            (Fits(k) /\ \A j \in 1..(k - 1) : ~Fits(j)) => eng.adapter = SiteAdapters[k]
       /\ (~anySite /\ generic) => eng.adapter = "Generic"
       /\ (~anySite /\ ~generic) =>
            /\ eng.adapter = "none"
            /\ eng.outcome = "threw"
            /\ Includes(eng.error, "No suitable adapter found")
            /\ eng.invoked = <<>>
       /\ eng.adapter # "none" => eng.invoked = <<eng.adapter>>
       /\ (StripWww(h) = "cars.com" /\ Includes(ToLower(eng.url), "/vehicledetail/"))
            => eng.adapter = "Cars.com"

\* C1 witness: a cars.com vehicle page, which the generic keywords match too,
\* was scraped by the Cars.com adapter.
C1_Witness ==
  /\ eng.pc = "done"
  /\ eng.url = "https://www.cars.com/vehicledetail/9f3/"
  /\ isVehiclePage("Generic", eng.url)
  /\ eng.invoked = <<"Cars.com">>
  /\ eng.outcome = "returned"

\* C6: validation only annotates: the returned result has the vehicle, dealer,
\* photos, sourceUrl, scrapedAt and id the adapter produced, its warnings
\* start with the adapter's warnings in their order, and a result the adapter
\* produced is always returned, whatever is missing or out of range.
C6_ValidationAnnotatesOnly ==
  eng.scraped # NoResult =>
    /\ eng.outcome = "returned"
    /\ eng.result.vehicle = eng.scraped.vehicle
    /\ eng.result.dealer = eng.scraped.dealer
    /\ eng.result.photos = eng.scraped.photos
    /\ eng.result.sourceUrl = eng.scraped.sourceUrl
    /\ eng.result.scrapedAt = eng.scraped.scrapedAt
    /\ eng.result.id = eng.scraped.id
    /\ Len(eng.result.warnings) >= Len(eng.scraped.warnings)
    /\ SubSeq(eng.result.warnings, 1, Len(eng.scraped.warnings)) = eng.scraped.warnings

\* C6 witness: a result with a missing make, an out-of-range year, price and
\* mileage and no photos was returned with four warnings appended to the
\* adapter's two.
C6_Witness ==
  /\ eng.outcome = "returned"
  /\ eng.scraped.vehicle.year = N(1949)
  /\ eng.scraped.vehicle.price = N(2000000)
  /\ eng.scraped.vehicle.mileage = N(2000000)
  /\ eng.scraped.vehicle.make = U
  /\ eng.scraped.photos = <<>>
  /\ Len(eng.scraped.warnings) = 2
  /\ Len(eng.result.warnings) = 7

-----------------------------------------------------------------------------
(* Photo collector: URL handling (makeAbsoluteUrl, cleanImageUrl,           *)
(* isValidImageUrl, parseSrcset)                                            *)

SetMax(set) == CHOOSE x \in set : \A y \in set : y <= x
SetMin(set) == CHOOSE x \in set : \A y \in set : x <= y

\* the length of the run of characters in (not in) set that starts at s[i]
RECURSIVE RunOf(_, _, _)
RunOf(set, s, i) ==
  IF i <= Len(s) /\ Ch(s, i) \in set THEN 1 + RunOf(set, s, i + 1) ELSE 0
RECURSIVE RunOfNot(_, _, _)
RunOfNot(set, s, i) ==
  IF i <= Len(s) /\ Ch(s, i) \notin set THEN 1 + RunOfNot(set, s, i + 1) ELSE 0

\* s.split(c) for a one-character separator
RECURSIVE SplitOn(_, _)
SplitOn(s, c) ==
  LET n == RunOfNot({c}, s, 1)
  IN IF n = Len(s) THEN <<s>>
     ELSE <<SubSeq(s, 1, n)>> \o SplitOn(SubSeq(s, n + 2, Len(s)), c)

\* s.split(/\s+/)
RECURSIVE SplitSpaces(_)
SplitSpaces(s) ==
  LET n == RunOfNot(SpaceSet, s, 1)
  IN IF n = Len(s) THEN <<s>>
     ELSE <<SubSeq(s, 1, n)>>
            \o SplitSpaces(SubSeq(s, n + RunOf(SpaceSet, s, n + 1) + 1, Len(s)))

\* array.sort(cmp): cmp[i, j] is the comparator's result for the elements at
\* i and j. The sort is stable, so with a consistent comparator an element
\* lands after those that compare before it and after the earlier ones that
\* compare equal to it.
StableSort(seq, cmp) ==
  LET rank(i) == 1 + Cardinality({j \in 1..Len(seq) :
                       \/ cmp[j, i] < 0
                       \/ cmp[j, i] = 0 /\ j < i})
  IN [k \in 1..Len(seq) |-> seq[CHOOSE i \in 1..Len(seq) : rank(i) = k]]

\* window.location of the page being scraped
location ==
  [protocol |-> "https:", origin |-> "https://www.dealer.com",
   pathname |-> "/inventory/vdp/12345"]

makeAbsoluteUrl(url) ==
  IF StartsWith(url, "http://") \/ StartsWith(url, "https://") THEN url
  ELSE IF StartsWith(url, "//") THEN location.protocol \o url
  ELSE IF StartsWith(url, "/") THEN location.origin \o url
  ELSE LET path == location.pathname
           lastSlash == SetMax({i \in 1..Len(path) : Ch(path, i) = "/"})
       IN location.origin \o SubSeq(path, 1, lastSlash) \o url

\* new URL(url) for an http(s) URL: scheme and host are lower-cased, an empty
\* path becomes "/"; a URL without scheme or host, or with white space in the
\* host, does not parse.
parseURL(url) ==
  LET parsed(lower, schemeLen) ==
        LET h == schemeLen + 1
            hEnd == h + RunOfNot({"/", "?", "#"}, url, h)
            pEnd == hEnd + RunOfNot({"?", "#"}, url, hEnd)
            qEnd == pEnd + RunOfNot({"#"}, url, pEnd)
            host == SubSeq(url, h, hEnd - 1)
        IN IF schemeLen = 0 \/ host = "" \/ RunOfNot(SpaceSet, host, 1) # Len(host)
           THEN [ok |-> FALSE]
           ELSE [ok |-> TRUE,
                 protocol |-> SubSeq(lower, 1, schemeLen - 2),
                 host |-> ToLower(host),
                 pathname |-> IF pEnd = hEnd THEN "/" ELSE SubSeq(url, hEnd, pEnd - 1),
                 search |-> IF qEnd > pEnd THEN SubSeq(url, pEnd + 1, qEnd - 1) ELSE "",
                 hash |-> IF qEnd < Len(url) THEN SubSeq(url, qEnd + 1, Len(url)) ELSE ""]
      scheme(lower) == parsed(lower, IF StartsWith(lower, "https://") THEN 8
                                     ELSE IF StartsWith(lower, "http://") THEN 7 ELSE 0)
  IN scheme(ToLower(url))

\* urlObj.toString()
serializeURL(u) ==
  u.protocol \o "//" \o u.host \o u.pathname
    \o (IF u.search = "" THEN "" ELSE "?" \o u.search)
    \o (IF u.hash = "" THEN "" ELSE "#" \o u.hash)

trackingParams ==
  {"utm_source", "utm_medium", "utm_campaign", "utm_content",
   "gclid", "fbclid", "_ga", "ref", "referrer"}

\* searchParams after the deletes: the pairs whose name is no tracking
\* parameter, written back as name=value joined by "&".
RECURSIVE keptParams(_)
keptParams(pairs) ==
  IF pairs = <<>> THEN <<>>
  ELSE LET kv == Head(pairs)
           n == RunOfNot({"="}, kv, 1)
           name == SubSeq(kv, 1, n)
       IN (IF kv = "" \/ name \in trackingParams THEN <<>>
           ELSE IF n = Len(kv) THEN <<kv \o "=">> ELSE <<kv>>)
            \o keptParams(Tail(pairs))

cleanImageUrl(url) ==
  LET clean(u) ==
        IF ~u.ok THEN url
        ELSE serializeURL([u EXCEPT !.search = Join(keptParams(SplitOn(u.search, "&")), "&"),
                                    !.hash = ""])
  IN clean(parseURL(url))

imageExtensions == {".jpg", ".jpeg", ".png", ".gif", ".webp", ".bmp"}
imageIndicators ==
  {"/image/", "/img/", "/photo/", "/picture/", "/gallery/",
   "images.", "photos.", "media.", "cdn."}

isValidImageUrl(url) ==
  LET valid(u) ==
        /\ u.ok
        /\ \/ \E ext \in imageExtensions : EndsWith(ToLower(u.pathname), ext)
           \/ \E indicator \in imageIndicators : Includes(ToLower(url), indicator)
  IN valid(parseURL(url))

RECURSIVE Pow10(_)
Pow10(k) == IF k = 0 THEN 1 ELSE 10 * Pow10(k - 1)

\* Math.round(1920 * (parseFloat(s) || 1)) for an unsigned decimal s
densityWidth(s) ==
  LET a == DigitRun(s)
      b == IF a < Len(s) /\ Ch(s, a + 1) = "." THEN DigitRun(SubSeq(s, a + 2, Len(s))) ELSE 0
      num == DigitsValue(SubSeq(s, 1, a) \o SubSeq(s, a + 2, a + 1 + b))
      den == Pow10(b)
  IN IF a + b = 0 \/ num = 0 THEN 1920
     ELSE (2 * 1920 * num + den) \div (2 * den)

\* the width of one srcset candidate, from its descriptor
srcsetWidth(parts) ==
  IF Len(parts) > 1
  THEN LET descriptor == parts[2]
           number == SubSeq(descriptor, 1, Len(descriptor) - 1)
       IN IF EndsWith(descriptor, "w")
          THEN (IF ParseInt(number).t = "num" THEN ParseInt(number).v ELSE 0)
          ELSE IF EndsWith(descriptor, "x") THEN densityWidth(number)
          ELSE 0
  ELSE 0

RECURSIVE srcsetCandidates(_)
srcsetCandidates(sources) ==
  IF sources = <<>> THEN <<>>
  ELSE LET parts == SplitSpaces(Trim(Head(sources)))
       IN <<[url |-> parts[1], width |-> srcsetWidth(parts)]>>
            \o srcsetCandidates(Tail(sources))

widthDescending(a, b) == b.width - a.width

parseSrcset(srcset) ==
  LET urls(sorted) == [k \in 1..Len(sorted) |-> sorted[k].url]
      sort(c) == StableSort(c, [i, j \in 1..Len(c) |-> widthDescending(c[i], c[j])])
  IN urls(sort(srcsetCandidates(SplitOn(srcset, ","))))

-----------------------------------------------------------------------------
(* Photo collector: extractPhotos over the image elements of a document     *)

\* An element of the document, as the collector sees it: the selectors that
\* match it, its resolved src, its srcset, its data-src / data-original /
\* data-lazy / data-full / data-large attributes ("" when absent), class and
\* id, intrinsic and layout size (0 when unknown), and its ancestors below
\* <body>, nearest first, each with class, id and computed background-image.
Element(tag, matches, src, srcset, data, className, id, natural, layout, ancestors) ==
  [tag |-> tag, matches |-> matches, src |-> src, srcset |-> srcset, data |-> data,
   className |-> className, id |-> id,
   naturalWidth |-> natural[1], naturalHeight |-> natural[2],
   width |-> layout[1], height |-> layout[2], ancestors |-> ancestors]

Ancestor(className, id, backgroundImage) ==
  [className |-> className, id |-> id, backgroundImage |-> backgroundImage]

\* bgImage.match(/url\(['"]?([^'"]+)['"]?\)/)[1] at the first "url(" of the
\* value, "" when it does not match
backgroundUrl(bgImage) ==
  LET i == IndexOf(bgImage, "url(")
      quotes == {"'", "\""}
      start == i + 4 + (IF i + 4 <= Len(bgImage) /\ Ch(bgImage, i + 4) \in quotes THEN 1 ELSE 0)
      run == RunOfNot(quotes, bgImage, start)
      closes(n) == LET e == start + n IN
                     \/ e <= Len(bgImage) /\ Ch(bgImage, e) = ")"
                     \/ e < Len(bgImage) /\ Ch(bgImage, e) \in quotes /\ Ch(bgImage, e + 1) = ")"
      fits == {n \in 1..run : closes(n)}
  IN IF i = 0 \/ fits = {} THEN "" ELSE SubSeq(bgImage, start, start + SetMax(fits) - 1)

RECURSIVE truthyStrings(_)
truthyStrings(seq) ==
  IF seq = <<>> THEN <<>>
  ELSE (IF Head(seq) # "" THEN <<Head(seq)>> ELSE <<>>) \o truthyStrings(Tail(seq))

RECURSIVE backgroundUrls(_)
backgroundUrls(ancestors) ==
  IF ancestors = <<>> THEN <<>>
  ELSE LET bgImage == Head(ancestors).backgroundImage
       IN (IF bgImage # "" /\ bgImage # "none" /\ backgroundUrl(bgImage) # ""
           THEN <<backgroundUrl(bgImage)>> ELSE <<>>)
            \o backgroundUrls(Tail(ancestors))

extractImageUrls(img) ==
  (IF img.src # "" THEN <<img.src>> ELSE <<>>)
    \o (IF img.srcset # "" THEN parseSrcset(img.srcset) ELSE <<>>)
    \o truthyStrings(img.data)
    \o backgroundUrls(img.ancestors)

mainImageIndicators ==
  {"hero", "main", "primary", "featured", "highlight", "large", "big", "banner"}

MainImageArea == 500000

hasMainIndicator(className, id) ==
  \E indicator \in mainImageIndicators :
    Includes(ToLower(className), indicator) \/ Includes(ToLower(id), indicator)

\* a || b for numbers
OrElse(a, b) == IF a # 0 THEN a ELSE b

isMainImage(img) ==
  \/ hasMainIndicator(img.className, img.id)
  \/ \E d \in 1..3 : /\ d <= Len(img.ancestors)
                     /\ hasMainIndicator(img.ancestors[d].className, img.ancestors[d].id)
  \/ OrElse(img.naturalWidth, img.width) * OrElse(img.naturalHeight, img.height)
       > MainImageArea

Dimension(n) == IF n # 0 THEN N(n) ELSE U

\* (photo.width || 0) * (photo.height || 0)
photoArea(photo) ==
  (IF Truthy(photo.width) THEN photo.width.v ELSE 0)
    * (IF Truthy(photo.height) THEN photo.height.v ELSE 0)

\* a comparator that orders by area alone
photoCompare_AreaOnly(a, b) == photoArea(b) - photoArea(a)

\* the comparator of photos.sort: main images first, then larger first
photoCompare(a, b) ==
  IF a.isMain /\ ~b.isMain THEN -1
  ELSE IF ~a.isMain /\ b.isMain THEN 1
  ELSE photoArea(b) - photoArea(a)

\* document.querySelectorAll(selector) throws a SyntaxError on a malformed
\* selector: an empty one, a doubled "." or "[", a dangling combinator.
malformedSelector(selector) ==
  \/ selector = ""
  \/ Includes(selector, "..") \/ Includes(selector, "[[")
  \/ EndsWith(selector, ">")

\* the positions, in document order, of the elements that selector matches
querySelectorAll(dom, selector) ==
  SelectSeq([i \in 1..Len(dom) |-> i], LAMBDA i : selector \in dom[i].matches)

RECURSIVE addAll(_, _, _)
addAll(dom, found, imageElements) ==
  IF found = <<>> THEN imageElements
  ELSE addAll(dom, Tail(found),
              IF dom[Head(found)].tag = "img"
                 /\ \A k \in 1..Len(imageElements) : imageElements[k] # Head(found)
              THEN Append(imageElements, Head(found)) ELSE imageElements)

\* imageElements: a Set, iterated in insertion order
RECURSIVE collectImageElements(_, _, _)
collectImageElements(dom, selectors, imageElements) ==
  IF selectors = <<>> THEN imageElements
  ELSE collectImageElements(dom, Tail(selectors),
         addAll(dom, querySelectorAll(dom, Head(selectors)), imageElements))

\* the inner loop without the seenUrls test
RECURSIVE addPhotos_NoSeenCheck(_, _, _)
addPhotos_NoSeenCheck(img, photoUrls, acc) ==
  IF photoUrls = <<>> THEN acc
  ELSE LET add(cleanUrl) ==
             IF cleanUrl # "" /\ isValidImageUrl(cleanUrl)
             THEN [seenUrls |-> acc.seenUrls \cup {cleanUrl},
                   photos |-> Append(acc.photos,
                                Photo(cleanUrl,
                                      Dimension(OrElse(img.naturalWidth, img.width)),
                                      Dimension(OrElse(img.naturalHeight, img.height)),
                                      isMainImage(img)))]
             ELSE acc
       IN addPhotos_NoSeenCheck(img, Tail(photoUrls),
                                add(cleanImageUrl(makeAbsoluteUrl(Head(photoUrls)))))

\* the inner loop of extractPhotos over the URLs of one image
RECURSIVE addPhotos(_, _, _)
addPhotos(img, photoUrls, acc) ==
  IF photoUrls = <<>> THEN acc
  ELSE LET add(cleanUrl) ==
             IF cleanUrl # "" /\ cleanUrl \notin acc.seenUrls /\ isValidImageUrl(cleanUrl)
             THEN [seenUrls |-> acc.seenUrls \cup {cleanUrl},
                   photos |-> Append(acc.photos,
                                Photo(cleanUrl,
                                      Dimension(OrElse(img.naturalWidth, img.width)),
                                      Dimension(OrElse(img.naturalHeight, img.height)),
                                      isMainImage(img)))]
             ELSE acc
       IN addPhotos(img, Tail(photoUrls),
                    add(cleanImageUrl(makeAbsoluteUrl(Head(photoUrls)))))

RECURSIVE processImages(_, _, _)
processImages(dom, imageElements, acc) ==
  IF imageElements = <<>> THEN acc
  ELSE LET img == dom[Head(imageElements)]
       IN processImages(dom, Tail(imageElements),
                        addPhotos(img, extractImageUrls(img), acc))

\* extractPhotos(selectors): rejects when a selector is malformed (the
\* querySelectorAll call is not guarded), otherwise the sorted photos. The
\* elements are HTML elements, for which nothing in the per-image body throws.
extractPhotos(selectors, dom) ==
  IF \E k \in 1..Len(selectors) : malformedSelector(selectors[k])
  THEN [threw |-> TRUE,
        message |-> "Failed to execute 'querySelectorAll' on 'Document'"]
  ELSE LET sort(photos) ==
             StableSort(photos, [i, j \in 1..Len(photos) |->
                                   photoCompare(photos[i], photos[j])])
       IN [threw |-> FALSE,
           photos |-> sort(processImages(dom, collectImageElements(dom, selectors, <<>>),
                                         [seenUrls |-> {}, photos |-> <<>>]).photos)]

-----------------------------------------------------------------------------
(* extractPhotos on bounded documents *)

MaxImgs == 3

NoData == <<"", "", "", "", "">>

GallerySelectors == {".gallery img", ".photos img"}

ElementSamples ==
  { \* the hero shot, matched by both selectors
    Element("img", GallerySelectors, "https://cdn.dealer.com/v/1.jpg", "", NoData,
            "hero-image", "", <<1024, 768>>, <<0, 0>>, <<>>),
    \* a thumbnail known only by its layout size
    Element("img", {".gallery img"}, "https://cdn.dealer.com/v/2.jpg", "", NoData,
            "thumb", "", <<0, 0>>, <<200, 150>>, <<Ancestor("gallery", "", "none")>>),
    \* the hero shot again, with tracking parameters, a fragment and upper case
    Element("img", {".photos img"}, "https://CDN.dealer.com/v/1.jpg?utm_source=fb&ref=x#top",
            "", NoData, "", "", <<640, 480>>, <<0, 0>>, <<>>),
    \* lazy-loaded: no src, a relative data-src and the same file as data-full
    Element("img", {".gallery img"}, "", "",
            <<"/img/3.png?w=800&gclid=9", "", "", "/img/3.png?w=800", "">>,
            "lazy", "", <<0, 0>>, <<0, 0>>, <<>>),
    \* responsive: a src and two srcset candidates, large without a label
    Element("img", {".photos img"}, "https://cdn.dealer.com/v/2.jpg",
            "/v/s.jpg 480w, /v/l.jpg 1200w", NoData,
            "", "", <<1000, 800>>, <<0, 0>>, <<>>),
    \* not a photo: no image extension and no image path
    Element("img", GallerySelectors, "https://www.dealer.com/logo.svg", "", NoData,
            "", "", <<300, 100>>, <<0, 0>>, <<>>),
    \* small, inside a featured block painted with the hero shot as background
    Element("img", {".gallery img"}, "//images.dealer.com/p/7", "", NoData,
            "", "", <<0, 0>>, <<160, 120>>,
            <<Ancestor("slide", "", "url(\"https://cdn.dealer.com/v/1.jpg\")"),
              Ancestor("featured", "", "")>>),
    \* a matched element that is no image
    Element("div", {".gallery img"}, "", "", NoData, "", "", <<0, 0>>, <<0, 0>>, <<>>) }

Documents == UNION {[1..n -> ElementSamples] : n \in 0..MaxImgs}

SelectorLists ==
  {<<".gallery img">>, <<".gallery img", ".photos img">>, <<".photos img", "..thumbs img">>}

PhInit ==
  /\ ph \in {[pc |-> "ready", dom |-> d, selectors |-> s, result |-> NoResult] :
               d \in Documents, s \in SelectorLists}
  /\ nz = Off /\ eng = Off /\ ad = Off /\ uf = Off /\ st = Off /\ rq = Off /\ pr = Off
  /\ wt = Off /\ fb = Off
  /\ db = Off /\ bg = Off /\ ct = Off

\* extractPhotos(selectors)
PhExtract ==
  /\ ph.pc = "ready"
  /\ ph' = [ph EXCEPT !.pc = "done", !.result = extractPhotos(ph.selectors, ph.dom)]
  /\ UNCHANGED <<nz, eng, ad, uf, st, rq, pr, wt, fb, db, bg, ct>>

PhNext == PhExtract

SpecPhotos == PhInit /\ [][PhNext]_vars

\* The image elements the selectors match, and the distinct valid cleaned
\* absolute URLs they offer.
MatchedImages(dom, selectors) ==
  {i \in 1..Len(dom) : dom[i].tag = "img"
                        /\ \E k \in 1..Len(selectors) : selectors[k] \in dom[i].matches}

OfferedUrls(dom, selectors) ==
  {u \in {cleanImageUrl(makeAbsoluteUrl(extractImageUrls(dom[i])[k])) :
            <<i, k>> \in {p \in MatchedImages(dom, selectors) \X (1..8) :
                            p[2] <= Len(extractImageUrls(dom[p[1]]))}} :
     u # "" /\ isValidImageUrl(u)}

\* C8: the photos extractPhotos returns have pairwise distinct urls, and there
\* are exactly as many of them as there are distinct valid cleaned absolute
\* URLs among the matched image elements, however many elements, selectors or
\* attributes lead to the same URL.
C8_PhotoDedup ==
  (ph.pc = "done" /\ ~ph.result.threw) =>
    LET photos == ph.result.photos IN
    /\ \A i, j \in 1..Len(photos) : i # j => photos[i].url # photos[j].url
    /\ Len(photos) = Cardinality(OfferedUrls(ph.dom, ph.selectors))
    /\ {photos[i].url : i \in 1..Len(photos)} = OfferedUrls(ph.dom, ph.selectors)

\* Three matched image elements, one of them matched by both selectors, whose
\* URLs collapse to fewer distinct values, and that many photos returned.
C8_Witness ==
  /\ ph.pc = "done" /\ ~ph.result.threw
  /\ Cardinality(MatchedImages(ph.dom, ph.selectors)) = 3
  /\ Cardinality(OfferedUrls(ph.dom, ph.selectors)) \in {1, 2}
  /\ Len(ph.result.photos) = Cardinality(OfferedUrls(ph.dom, ph.selectors))
  /\ \E i \in 1..Len(ph.dom) :
       \A k \in 1..Len(ph.selectors) : ph.selectors[k] \in ph.dom[i].matches
  /\ Len(ph.selectors) = 2

\* C9: in the list extractPhotos returns a main photo never follows one that
\* is not main, and of two photos with the same isMain the one of larger
\* width x height (unknown counted as zero) never follows the smaller.
C9_PhotoOrder ==
  (ph.pc = "done" /\ ~ph.result.threw) =>
    LET photos == ph.result.photos
        area(p) == (IF p.width.t = "num" THEN p.width.v ELSE 0)
                     * (IF p.height.t = "num" THEN p.height.v ELSE 0)
    IN \A i, j \in 1..Len(photos) :
         i < j => /\ ~(photos[j].isMain /\ ~photos[i].isMain)
                  /\ (photos[i].isMain = photos[j].isMain
                        => area(photos[i]) >= area(photos[j]))

\* A result with a main photo, found last in the document, ahead of two others
\* that are not main, the larger of which was found after the smaller one.
C9_Witness ==
  /\ ph.pc = "done" /\ ~ph.result.threw
  /\ Len(ph.result.photos) = 3
  /\ ph.result.photos[1].isMain /\ ~ph.result.photos[2].isMain
  /\ photoArea(ph.result.photos[2]) > photoArea(ph.result.photos[3])
  /\ ph.result.photos[1].url = cleanImageUrl(makeAbsoluteUrl(ph.dom[3].src))
  /\ ph.dom[1].data[1] # ""
  /\ ph.result.photos[3].url = cleanImageUrl(makeAbsoluteUrl(ph.dom[1].data[1]))

-----------------------------------------------------------------------------
(* urlsToFiles: photos fetched one after another and wrapped as File objects *)

MaxBatch == 3

BatchUrls == {"https://cdn.dealer.com/v/1.jpg", "https://www.dealer.com/img/3.png?w=800"}

Batches ==
  UNION {[1..n -> {Photo(u, U, U, FALSE) : u \in BatchUrls}] : n \in 0..MaxBatch}

\* response.headers.get('content-type'), "" standing for null
ContentTypes == {"", "image/png", "image/webp", "text/html"}

\* blob.type
BlobTypes == {"", "image/png"}

extensionOf(contentType) ==
  IF contentType # ""
  THEN (IF Includes(contentType, "png") THEN "png"
        ELSE IF Includes(contentType, "gif") THEN "gif"
        ELSE IF Includes(contentType, "webp") THEN "webp"
        ELSE "jpg")
  ELSE "jpg"

\* new File([blob], `vehicle_photo_${i + 1}.${extension}`, {type}) made from
\* the photo at (0-based) index i
File(i, url, contentType, blobType) ==
  [name |-> "vehicle_photo_" \o ToString(i + 1) \o "." \o extensionOf(contentType),
   type |-> IF blobType # "" THEN blobType ELSE "image/jpeg",
   from |-> url]

UfInit ==
  /\ uf \in {[pc |-> "loop", photos |-> b, i |-> 0, contentType |-> "",
              files |-> <<>>, requests |-> <<>>, fetched |-> {},
              log |-> <<>>, outcome |-> "pending"] : b \in Batches}
  /\ nz = Off /\ eng = Off /\ ad = Off /\ ph = Off /\ st = Off /\ rq = Off /\ pr = Off
  /\ wt = Off /\ fb = Off
  /\ db = Off /\ bg = Off /\ ct = Off

\* await fetch(photo.url) resolves with response.ok
UfFetchOk ==
  /\ uf.pc = "loop" /\ uf.i < Len(uf.photos)
  /\ \E contentType \in ContentTypes :
       uf' = [uf EXCEPT !.pc = "blob", !.contentType = contentType,
                        !.requests = Append(@, uf.photos[uf.i + 1].url)]
  /\ UNCHANGED <<nz, eng, ad, ph, st, rq, pr, wt, fb, db, bg, ct>>

\* await fetch(photo.url) resolves with !response.ok: logged, continue
UfFetchNotOk ==
  /\ uf.pc = "loop" /\ uf.i < Len(uf.photos)
  /\ uf' = [uf EXCEPT !.i = @ + 1, !.requests = Append(@, uf.photos[uf.i + 1].url),
                      !.log = Append(@, "warn: Failed to fetch photo")]
  /\ UNCHANGED <<nz, eng, ad, ph, st, rq, pr, wt, fb, db, bg, ct>>

\* a fetch that rejects and is not caught
UfFetchRejects_Propagates ==
  /\ uf.pc = "loop" /\ uf.i < Len(uf.photos)
  /\ uf' = [uf EXCEPT !.pc = "done", !.outcome = "rejected",
                      !.requests = Append(@, uf.photos[uf.i + 1].url)]
  /\ UNCHANGED <<nz, eng, ad, ph, st, rq, pr, wt, fb, db, bg, ct>>

\* await fetch(photo.url) rejects: caught, logged, next iteration
UfFetchRejects ==
  /\ uf.pc = "loop" /\ uf.i < Len(uf.photos)
  /\ uf' = [uf EXCEPT !.i = @ + 1, !.requests = Append(@, uf.photos[uf.i + 1].url),
                      !.log = Append(@, "error: Failed to convert photo")]
  /\ UNCHANGED <<nz, eng, ad, ph, st, rq, pr, wt, fb, db, bg, ct>>

\* await response.blob() resolves: the File is built and pushed
UfBlobResolves ==
  /\ uf.pc = "blob"
  /\ \E blobType \in BlobTypes :
       uf' = [uf EXCEPT !.pc = "loop", !.i = @ + 1,
                        !.files = Append(@, File(uf.i, uf.photos[uf.i + 1].url,
                                                 uf.contentType, blobType)),
                        !.fetched = @ \cup {uf.i + 1}]
  /\ UNCHANGED <<nz, eng, ad, ph, st, rq, pr, wt, fb, db, bg, ct>>

\* await response.blob() rejects: caught, logged, next iteration
UfBlobRejects ==
  /\ uf.pc = "blob"
  /\ uf' = [uf EXCEPT !.pc = "loop", !.i = @ + 1,
                      !.log = Append(@, "error: Failed to convert photo")]
  /\ UNCHANGED <<nz, eng, ad, ph, st, rq, pr, wt, fb, db, bg, ct>>

\* the loop is over: return files
UfReturn ==
  /\ uf.pc = "loop" /\ uf.i >= Len(uf.photos)
  /\ uf' = [uf EXCEPT !.pc = "done", !.outcome = "returned"]
  /\ UNCHANGED <<nz, eng, ad, ph, st, rq, pr, wt, fb, db, bg, ct>>

UfNext ==
  \/ UfFetchOk \/ UfFetchNotOk \/ UfFetchRejects
  \/ UfBlobResolves \/ UfBlobRejects \/ UfReturn

SpecFiles == UfInit /\ [][UfNext]_vars

\* the positions of fetched, in increasing order
RECURSIVE Ascending(_)
Ascending(set) ==
  IF set = {} THEN <<>> ELSE <<SetMin(set)>> \o Ascending(set \ {SetMin(set)})

\* C10: urlsToFiles never rejects; once it is over every photo of the input
\* has been requested, in input order, whatever happened to the others, and
\* the files returned are those of the photos that were fetched and read
\* successfully, one each, in input order.
C10_PartialFailureTolerant ==
  /\ uf.pc # "off" => uf.outcome # "rejected"
  /\ uf.pc = "done" =>
       /\ uf.outcome = "returned"
       /\ uf.requests = [k \in 1..Len(uf.photos) |-> uf.photos[k].url]
       /\ Len(uf.files) = Cardinality(uf.fetched)
       /\ \A k \in 1..Len(uf.files) :
            LET at == Ascending(uf.fetched)[k] IN
            /\ uf.files[k].from = uf.photos[at].url
            /\ StartsWith(uf.files[k].name, "vehicle_photo_" \o ToString(at) \o ".")

\* A batch of three where the first fetch failed and a later one succeeded.
C10_Witness ==
  /\ uf.pc = "done" /\ uf.outcome = "returned"
  /\ Len(uf.photos) = 3
  /\ 1 \notin uf.fetched /\ 3 \in uf.fetched
  /\ Len(uf.files) \in {1, 2}

-----------------------------------------------------------------------------
(* The history store: chrome.storage.local and the three save routines      *)
(* (StorageManager.saveScrapeResult, the background saveScrapeResult,       *)
(* addToInventory). A stored ScrapeResult is represented by its id.         *)

HistoryCap == 50

MaxSaves == 3

Take(list, n) == SubSeq(list, 1, IF Len(list) < n THEN Len(list) ELSE n)

\* a save that adds the result at the end
managerSave_Appends(scrapeResults, result) ==
  LET combined == scrapeResults \o <<result>>
  IN IF Len(combined) > HistoryCap THEN SubSeq(combined, 1, HistoryCap) ELSE combined

\* StorageManager.saveScrapeResult: unshift, then slice(0, 50) when over 50
managerSave(scrapeResults, result) ==
  LET combined == <<result>> \o scrapeResults
  IN IF Len(combined) > HistoryCap THEN SubSeq(combined, 1, HistoryCap) ELSE combined

\* background saveScrapeResult: unshift, then splice(50) when over 50
backgroundSave(scrapeResults, result) ==
  LET combined == <<result>> \o scrapeResults
  IN IF Len(combined) > HistoryCap
     THEN [k \in 1..HistoryCap |-> combined[k]] ELSE combined

\* addToInventory: [item, ...list].slice(0, 50)
addToInventory(list, item) == Take(<<item>> \o list, HistoryCap)

SaveRoutines == {"StorageManager", "background", "addToInventory"}

storageKey(routine) ==
  IF routine = "addToInventory" THEN "vsml_inventory" ELSE "scrapeResults"

savedList(routine, list, item) ==
  CASE routine = "StorageManager" -> managerSave(list, item)
    [] routine = "background" -> backgroundSave(list, item)
    [] routine = "addToInventory" -> addToInventory(list, item)

\* a history of n results, newest first, with ids n, n - 1, .., 1
History(n) == [k \in 1..n |-> n + 1 - k]

\* The histories the store starts from: none yet, one short of the cap, at
\* the cap, and (scrapeResults only, which importData writes as it is given)
\* over the cap. A missing key reads as the empty list.
StInit ==
  /\ st \in {[pc |-> "idle",
              store |-> [scrapeResults |-> History(a), vsml_inventory |-> History(b)],
              routine |-> "none", item |-> 0, before |-> <<>>, pending |-> <<>>,
              saves |-> 0, nextId |-> 100, last |-> NoResult] :
               a \in {0, HistoryCap - 1, HistoryCap, HistoryCap + 2},
               b \in {0, HistoryCap - 1, HistoryCap}}
  /\ nz = Off /\ eng = Off /\ ad = Off /\ ph = Off /\ uf = Off /\ rq = Off /\ pr = Off
  /\ wt = Off /\ fb = Off
  /\ db = Off /\ bg = Off /\ ct = Off

\* A save starts: the list is read from storage and the new list is computed.
\* The item is a new result or, saved once more, the newest stored one.
StSaveRead ==
  /\ st.pc = "idle" /\ st.saves < MaxSaves
  /\ \E routine \in SaveRoutines :
       LET list == st.store[storageKey(routine)] IN
       \E item \in {st.nextId} \cup (IF list = <<>> THEN {} ELSE {list[1]}) :
         st' = [st EXCEPT !.pc = "saving", !.routine = routine, !.item = item,
                          !.before = list,
                          !.pending = savedList(routine, list, item),
                          !.nextId = IF item = st.nextId THEN @ + 1 ELSE @]
  /\ UNCHANGED <<nz, eng, ad, ph, uf, rq, pr, wt, fb, db, bg, ct>>

\* chrome.storage.local.set resolves: the new list replaces the stored one.
StSaveWrite ==
  /\ st.pc = "saving"
  /\ st' = [st EXCEPT !.pc = "idle", !.saves = @ + 1,
                      !.store = [@ EXCEPT ![storageKey(st.routine)] = st.pending],
                      !.last = [routine |-> st.routine, item |-> st.item,
                                before |-> st.before, stored |-> TRUE,
                                threw |-> FALSE]]
  /\ UNCHANGED <<nz, eng, ad, ph, uf, rq, pr, wt, fb, db, bg, ct>>

\* chrome.storage.local.set rejects: nothing is stored; StorageManager logs
\* and rethrows, addToInventory lets the rejection through, the background
\* routine logs and swallows it.
StSaveWriteFails ==
  /\ st.pc = "saving"
  /\ st' = [st EXCEPT !.pc = "idle", !.saves = @ + 1,
                      !.last = [routine |-> st.routine, item |-> st.item,
                                before |-> st.before, stored |-> FALSE,
                                threw |-> st.routine # "background"]]
  /\ UNCHANGED <<nz, eng, ad, ph, uf, rq, pr, wt, fb, db, bg, ct>>

StNext == StSaveRead \/ StSaveWrite \/ StSaveWriteFails

SpecStore == StInit /\ [][StNext]_vars

\* C7: once a save of r onto the stored history h has completed, the stored
\* history is the first 50 elements of r followed by h: r is first, the
\* retained entries follow in their old order, there are at most 50, and with
\* h at 50 entries only its last one is gone. One save after another, this
\* holds after each of them.
C7_CappedHistoryOnSave ==
  (st.pc = "idle" /\ st.last # NoResult /\ st.last.stored) =>
    LET h == st.last.before
        now == st.store[storageKey(st.last.routine)]
    IN /\ now = Take(<<st.last.item>> \o h, 50)
       /\ now[1] = st.last.item
       /\ Len(now) <= 50
       /\ \A k \in 2..Len(now) : now[k] = h[k - 1]
       /\ Len(h) < 50 => Len(now) = Len(h) + 1
       /\ Len(h) = 50 => Len(now) = 50 /\ h[50] \notin {now[k] : k \in 1..50}

\* Saves one after another onto a history that already held 50 entries: the
\* second completed save evicted the then-oldest entry.
C7_Witness ==
  /\ st.pc = "idle" /\ st.saves >= 2
  /\ st.last # NoResult /\ st.last.stored
  /\ Len(st.last.before) = 50
  /\ st.last.before[1] >= 100
  /\ Len(st.store[storageKey(st.last.routine)]) = 50

-----------------------------------------------------------------------------
(* The regular expressions of the adapters, each as its leftmost match *)

LetterSet == UpperSet \cup LowerSet
TitleCharSet == LetterSet \cup DigitSet \cup SpaceSet          \* [A-Za-z0-9\s]
VinCharSet == CharSet(VinAlphabet)                            \* [A-HJ-NPR-Z0-9]

NoMatch == [ok |-> FALSE]

\* ([A-Za-z0-9\s]+?)(?:\s+([A-Za-z0-9\s]+))?$ on the text t of title
\* characters: the lazy group 3 grows from n characters until either white
\* space and a non-empty group 4 follow, or the end is reached.
RECURSIVE titleTail(_, _)
titleTail(t, n) ==
  IF n >= Len(t) THEN [g3 |-> t, g4 |-> U]
  ELSE LET k == RunOf(SpaceSet, t, n + 1)
       IN IF k >= 1 /\ n + k < Len(t)
          THEN [g3 |-> SubSeq(t, 1, n), g4 |-> S(SubSeq(t, n + k + 1, Len(t)))]
          ELSE IF k >= 2
          THEN [g3 |-> SubSeq(t, 1, n), g4 |-> S(SubSeq(t, Len(t), Len(t)))]
          ELSE titleTail(t, n + 1)

\* the title expression anchored at position i
titleRegexAt(s, i) ==
  IF ~AllDigits(s, i, 4) THEN NoMatch
  ELSE LET w1 == RunOf(SpaceSet, s, i + 4)
           m == i + 4 + w1
           k == RunOf(LetterSet, s, m)
           rest == SubSeq(s, m + k, Len(s))
           w2max == RunOf(SpaceSet, rest, 1)
           w2 == IF w2max = Len(rest) THEN w2max - 1 ELSE w2max
       IN IF w1 = 0 \/ k = 0 \/ Len(rest) < 2 \/ w2max = 0
             \/ RunOf(TitleCharSet, rest, 1) # Len(rest)
          THEN NoMatch
          ELSE LET tail == titleTail(SubSeq(rest, w2 + 1, Len(rest)), 1)
               IN [ok |-> TRUE, g1 |-> SubSeq(s, i, i + 3), g2 |-> SubSeq(s, m, m + k - 1),
                   g3 |-> tail.g3, g4 |-> tail.g4]

\* text.match(/(\d{4})\s+([A-Za-z]+)\s+([A-Za-z0-9\s]+?)(?:\s+([A-Za-z0-9\s]+))?$/)
titleRegex(s) ==
  LET at == {i \in 1..Len(s) : titleRegexAt(s, i).ok}
  IN IF at = {} THEN NoMatch ELSE titleRegexAt(s, SetMin(at))

\* /\d{4}\s+[A-Za-z]+\s+[A-Za-z0-9\s]+/.test(text)
looksLikeVehicleTitle(text) ==
  \E i \in 1..Len(text) :
    /\ AllDigits(text, i, 4)
    /\ LET w1 == RunOf(SpaceSet, text, i + 4)
           k == RunOf(LetterSet, text, i + 4 + w1)
           r == i + 4 + w1 + k
       IN /\ w1 > 0 /\ k > 0
          /\ r + 1 <= Len(text)
          /\ IsSpace(Ch(text, r)) /\ Ch(text, r + 1) \in TitleCharSet

\* text.match(/(\d+)/)[1], "" when there is no digit
firstDigits(text) ==
  LET i == 1 + RunOfNot(DigitSet, text, 1)
  IN IF i > Len(text) THEN "" ELSE SubSeq(text, i, i + RunOf(DigitSet, text, i) - 1)

RECURSIVE commaGroups(_, _)
commaGroups(s, j) ==
  IF j <= Len(s) /\ Ch(s, j) = "," /\ AllDigits(s, j + 1, 3)
  THEN 1 + commaGroups(s, j + 4) ELSE 0

\* the length of group 1 of /(\d{1,3}(?:,\d{3})*)\s*miles?/i anchored at i, 0
\* when it does not match there
mileageMatchLen(s, i) ==
  LET fits == {d \in 1..3 :
                 /\ AllDigits(s, i, d)
                 /\ LET e == i + d + 4 * commaGroups(s, i + d)
                        j == e + RunOf(SpaceSet, s, e)
                    IN j + 3 <= Len(s) /\ ToLower(SubSeq(s, j, j + 3)) = "mile"}
  IN IF fits = {} THEN 0
     ELSE SetMax(fits) + 4 * commaGroups(s, i + SetMax(fits))

\* pageText.match(/(\d{1,3}(?:,\d{3})*)\s*miles?/i)[1], "" without a match
mileageRegex(pageText) ==
  LET at == {i \in 1..Len(pageText) : mileageMatchLen(pageText, i) > 0}
  IN IF at = {} THEN ""
     ELSE SubSeq(pageText, SetMin(at), SetMin(at) + mileageMatchLen(pageText, SetMin(at)) - 1)

\* pageText.match(/\b[A-HJ-NPR-Z0-9]{17}\b/)[0], "" without a match
vinRegex(pageText) ==
  LET at == {i \in 1..(Len(pageText) - 16) :
               /\ RunOf(VinCharSet, SubSeq(pageText, i, i + 16), 1) = 17
               /\ i = 1 \/ ~IsWordChar(Ch(pageText, i - 1))
               /\ i + 17 > Len(pageText) \/ ~IsWordChar(Ch(pageText, i + 17))}
  IN IF at = {} THEN "" ELSE SubSeq(pageText, SetMin(at), SetMin(at) + 16)

\* the length of the match of /\d{3}[-.\s]?\d{3}[-.\s]?\d{4}/ at i, 0 if none
phoneMatchLen(s, i) ==
  IF AllDigits(s, i, 3)
  THEN LET a == i + 3 + SepLen(s, i + 3)
       IN IF AllDigits(s, a, 3)
          THEN LET b == a + 3 + SepLen(s, a + 3)
               IN IF AllDigits(s, b, 4) THEN b + 4 - i ELSE 0
          ELSE 0
  ELSE 0

\* text.match(/(\d{3}[-.\s]?\d{3}[-.\s]?\d{4})/)[1], "" without a match
phoneRegex(text) ==
  LET at == {i \in 1..Len(text) : phoneMatchLen(text, i) > 0}
  IN IF at = {} THEN ""
     ELSE SubSeq(text, SetMin(at), SetMin(at) + phoneMatchLen(text, SetMin(at)) - 1)

\* /([A-Za-z\s]+),\s*([A-Z]{2})\s*(\d{5})/ anchored at i
addressRegexAt(s, i) ==
  LET run == RunOf(LetterSet \cup SpaceSet, s, i)
      c == i + run
      a == c + 1 + RunOf(SpaceSet, s, c + 1)
      b == a + 2 + RunOf(SpaceSet, s, a + 2)
  IN IF /\ run > 0 /\ c <= Len(s) /\ Ch(s, c) = ","
        /\ a + 1 <= Len(s) /\ IsUpper(Ch(s, a)) /\ IsUpper(Ch(s, a + 1))
        /\ AllDigits(s, b, 5)
     THEN [ok |-> TRUE, g1 |-> SubSeq(s, i, c - 1), g2 |-> SubSeq(s, a, a + 1),
           g3 |-> SubSeq(s, b, b + 4)]
     ELSE NoMatch

addressRegex(text) ==
  LET at == {i \in 1..Len(text) : addressRegexAt(text, i).ok}
  IN IF at = {} THEN NoMatch ELSE addressRegexAt(text, SetMin(at))

-----------------------------------------------------------------------------
(* Site adapters (AutoTrader, Cars.com, CarGurus, Dealer.com): the steps of *)
(* scrape(). The document is what the adapter's lookups return: the text of *)
(* the first element its selector table finds (U when none), the elements   *)
(* findByLabel finds, document.body's text, and the gallery's elements.     *)
(* A step maps the scrape context (vehicle, dealer, warnings) to the next   *)
(* one; a step that throws marks the context instead.                       *)

NullBody == [t |-> "null"]

DealerFields == {"name", "phone", "city", "state", "zip"}

NewContext ==
  [vehicle |-> EmptyVehicle, dealer |-> [f \in DealerFields |-> U],
   warnings |-> <<>>, threw |-> FALSE, message |-> ""]

Throw(c, message) == [c EXCEPT !.threw = TRUE, !.message = message]

\* reading document.body.textContent when document.body is null
NullBodyMessage == "Cannot read properties of null (reading 'textContent')"

\* probe.findByLabel(labels): the text of the element found for the first
\* label that leads to one, U when no label does
findByLabel(doc, labels) ==
  LET hits == {k \in 1..Len(labels) : labels[k] \in DOMAIN doc.labelled}
  IN IF hits = {} THEN U ELSE S(doc.labelled[labels[SetMin(hits)]])

extractTitleInfo(doc, c) ==
  LET withTrim(trim, g4) ==
        IF Truthy(g4) THEN S((IF Truthy(trim) THEN trim.v \o " " ELSE "") \o g4.v)
        ELSE trim
      fields(titleMatch, parts) ==
        [c EXCEPT !.vehicle.year = ParseInt(titleMatch.g1),
                  !.vehicle.make = S(titleMatch.g2),
                  !.vehicle.model = S(parts[1]),
                  !.vehicle.trim =
                     withTrim(IF Len(parts) > 1 THEN S(Join(Tail(parts), " ")) ELSE U,
                              titleMatch.g4)]
      matched(titleMatch) ==
        IF titleMatch.ok THEN fields(titleMatch, SplitSpaces(Trim(titleMatch.g3)))
        ELSE [c EXCEPT !.warnings = Append(@, "Could not parse vehicle title format")]
  IN IF doc.title # U THEN matched(titleRegex(Trim(doc.title.v)))
     ELSE [c EXCEPT !.warnings = Append(@, "Vehicle title not found")]

extractPriceAndMileage(doc, c) ==
  LET c1 == IF doc.price # U
            THEN LET priceMatch == firstDigits(StripChars(doc.price.v, "$,"))
                 IN IF priceMatch # "" THEN [c EXCEPT !.vehicle.price = ParseInt(priceMatch)]
                    ELSE c
            ELSE [c EXCEPT !.warnings = Append(@, "Price not found")]
  IN IF doc.mileage # U
     THEN LET mileageMatch == firstDigits(StripChars(doc.mileage.v, "," \o Whitespace))
          IN IF mileageMatch # "" THEN [c1 EXCEPT !.vehicle.mileage = ParseInt(mileageMatch)]
             ELSE c1
     ELSE IF doc.body = NullBody THEN Throw(c1, NullBodyMessage)
     ELSE LET mileageMatch == mileageRegex(doc.body.v)
          IN IF mileageMatch # ""
             THEN [c1 EXCEPT !.vehicle.mileage = ParseInt(StripChars(mileageMatch, ","))]
             ELSE [c1 EXCEPT !.warnings = Append(@, "Mileage not found")]

\* extractSpecValue(fullText, specType): the text after the first colon, or
\* after the spec type, or the whole text
extractSpecValue(fullText, specType) ==
  LET parts == SplitOn(fullText, ":")
      i == IndexOf(ToLower(fullText), specType)
      from == i + Len(specType) + RunOf(SpaceSet, fullText, i + Len(specType))
  IN IF Len(parts) > 1 THEN Trim(parts[2])
     ELSE IF i > 0 /\ from <= Len(fullText)
          THEN Trim(SubSeq(fullText, from, from + RunOfNot({"\n"}, fullText, from) - 1))
          ELSE Trim(fullText)

\* the field a spec item is taken for, from its lower-cased text, and the
\* spec type handed to extractSpecValue; <<"none", "">> when no test passes
specItemField(adapter, text) ==
  LET has(w) == Includes(text, w) IN
  CASE has("transmission") -> <<"transmission", "transmission">>
    [] ~has("transmission")
       /\ (has("drivetrain") \/ has(IF adapter = "AutoTrader" THEN "drive" ELSE "drive type"))
         -> <<"drivetrain", "drivetrain">>
    [] OTHER ->
       IF has("engine") THEN <<"engine", "engine">>
       ELSE IF adapter = "Cars.com"
       THEN (IF has("fuel type") THEN <<"fuelType", "fuel type">>
             ELSE IF has("exterior color") THEN <<"exteriorColor", "exterior color">>
             ELSE IF has("interior color") THEN <<"interiorColor", "interior color">>
             ELSE IF has("body style") \/ has("body type") THEN <<"bodyStyle", "body style">>
             ELSE <<"none", "">>)
       ELSE (IF has("fuel") THEN <<"fuelType", "fuel">>
             ELSE IF has("exterior") /\ has("color") THEN <<"exteriorColor", "exterior color">>
             ELSE IF has("interior") /\ has("color") THEN <<"interiorColor", "interior color">>
             ELSE IF has("body") /\ (has("style") \/ (adapter # "AutoTrader" /\ has("type")))
             THEN <<"bodyStyle", "body style">>
             ELSE <<"none", "">>)

\* parseSpecField(label, ..) of Cars.com and the table rows of Dealer.com: the
\* field a lower-cased label stands for
specLabelField(label) ==
  LET has(w) == Includes(label, w) IN
  IF has("transmission") THEN "transmission"
  ELSE IF has("drivetrain") \/ has("drive") THEN "drivetrain"
  ELSE IF has("engine") THEN "engine"
  ELSE IF has("fuel") THEN "fuelType"
  ELSE IF has("exterior") /\ has("color") THEN "exteriorColor"
  ELSE IF has("interior") /\ has("color") THEN "interiorColor"
  ELSE IF has("body") THEN "bodyStyle"
  ELSE "none"

SetField(vehicle, field, value) ==
  IF field = "none" THEN vehicle ELSE [vehicle EXCEPT ![field] = value]

\* specItems.forEach(..): items are <<tag, textContent>>; Cars.com pairs a
\* <dt> with the <dd> after it
RECURSIVE specItems(_, _, _, _)
specItems(adapter, items, currentLabel, vehicle) ==
  IF items = <<>> THEN vehicle
  ELSE LET tag == Head(items)[1]
           text == ToLower(Head(items)[2])
           value == Trim(Head(items)[2])
           found == specItemField(adapter, text)
       IN IF adapter = "Cars.com" /\ tag = "dt"
          THEN specItems(adapter, Tail(items), text, vehicle)
          ELSE IF adapter = "Cars.com" /\ tag = "dd" /\ currentLabel # ""
          THEN specItems(adapter, Tail(items), "",
                         SetField(vehicle, specLabelField(currentLabel), S(value)))
          ELSE specItems(adapter, Tail(items), currentLabel,
                         SetField(vehicle, found[1],
                                  S(extractSpecValue(value, found[2]))))

\* rows.forEach(..) over the rows of the Dealer.com specs table that have
\* two cells, <<label, value>>
RECURSIVE specRows(_, _)
specRows(rows, vehicle) ==
  IF rows = <<>> THEN vehicle
  ELSE specRows(Tail(rows),
                SetField(vehicle, specLabelField(ToLower(Head(rows)[1])),
                         S(Trim(Head(rows)[2]))))

\* no step of extractSpecs pushes a warning
extractSpecs(adapter, doc, c) ==
  LET v1 == IF doc.specs # U THEN specItems(adapter, doc.specs.items, "", c.vehicle)
            ELSE c.vehicle
      labels(field) ==
        IF field = "transmission" THEN <<"transmission", "trans">>
        ELSE IF adapter = "AutoTrader" THEN <<"exterior color", "color", "ext color">>
        ELSE <<"exterior color", "color">>
      byLabel(v, field) ==
        IF ~Truthy(v[field]) /\ findByLabel(doc, labels(field)) # U
        THEN [v EXCEPT ![field] = S(Trim(findByLabel(doc, labels(field)).v))] ELSE v
      attr(v, field, name) ==
        IF ~Truthy(v[field]) /\ doc.dataAttributes[name] # ""
        THEN [v EXCEPT ![field] = IF field = "year" THEN ParseInt(doc.dataAttributes[name])
                                  ELSE S(doc.dataAttributes[name])]
        ELSE v
  IN [c EXCEPT !.vehicle =
       CASE adapter \in {"AutoTrader", "CarGurus"} ->
              byLabel(byLabel(v1, "transmission"), "exteriorColor")
         [] adapter = "Dealer.com" ->
              IF doc.specTable # U THEN specRows(doc.specTable.rows, v1) ELSE v1
         [] adapter = "Cars.com" ->
              IF doc.dataAttributes # U
              THEN attr(attr(attr(v1, "make", "make"), "model", "model"), "year", "year")
              ELSE v1]

\* no step of extractDealerInfo pushes a warning
extractDealerInfo(doc, c) ==
  LET d1 == IF doc.dealerName # U THEN [c.dealer EXCEPT !.name = S(Trim(doc.dealerName.v))]
            ELSE c.dealer
      contactText == IF doc.dealerContact # U THEN doc.dealerContact.v ELSE ""
      phoneMatch == phoneRegex(contactText)
      addressMatch == addressRegex(contactText)
      d2 == IF phoneMatch # "" THEN [d1 EXCEPT !.phone = S(phoneMatch)] ELSE d1
      d3 == IF addressMatch.ok
            THEN [d2 EXCEPT !.city = S(Trim(addressMatch.g1)), !.state = S(addressMatch.g2),
                            !.zip = S(addressMatch.g3)]
            ELSE d2
  IN [c EXCEPT !.dealer = d3]

\* the labelled field, then the page text; 'VIN not found' when neither
vinByLabelOrText(doc, c) ==
  IF findByLabel(doc, <<"vin", "vehicle identification number">>) # U
  THEN [c EXCEPT !.vehicle.vin =
          S(Trim(findByLabel(doc, <<"vin", "vehicle identification number">>).v))]
  ELSE IF doc.body = NullBody THEN Throw(c, NullBodyMessage)
  ELSE IF vinRegex(doc.body.v) # "" THEN [c EXCEPT !.vehicle.vin = S(vinRegex(doc.body.v))]
  ELSE [c EXCEPT !.warnings = Append(@, "VIN not found")]

\* Cars.com looks at [data-vin] first (an empty attribute gives undefined),
\* CarGurus at its own VIN element
extractVIN(adapter, doc, c) ==
  IF adapter = "Cars.com" /\ doc.vinElement # U
  THEN [c EXCEPT !.vehicle.vin = IF doc.vinElement.v # "" THEN doc.vinElement ELSE U]
  ELSE IF adapter = "CarGurus" /\ doc.vinElement # U
  THEN [c EXCEPT !.vehicle.vin = S(Trim(doc.vinElement.v))]
  ELSE vinByLabelOrText(doc, c)

\* a description step that reports nothing when there is no description
extractDescription_Silent(doc, c) ==
  IF doc.description # U
  THEN [c EXCEPT !.vehicle.description = S(Trim(doc.description.v))]
  ELSE c

extractDescription(doc, c) ==
  IF doc.description # U
  THEN [c EXCEPT !.vehicle.description = S(Trim(doc.description.v))]
  ELSE [c EXCEPT !.warnings = Append(@, "Description not found")]

-----------------------------------------------------------------------------
(* Generic adapter: microdata, Open Graph / Twitter meta tags, JSON-LD and  *)
(* heuristics, applied in this order to one vehicle                         *)

\* parseVehicleName(text, vehicle): fills only what the vehicle lacks
parseVehicleName(text, vehicle) ==
  LET fillIn(v, field, value) ==
        IF ~Truthy(v[field]) THEN [v EXCEPT ![field] = value] ELSE v
      withModel(v, parts) ==
        IF ~Truthy(v.model)
        THEN [v EXCEPT !.model = S(parts[1]),
                       !.trim = IF Len(parts) > 1 /\ ~Truthy(v.trim)
                                THEN S(Join(Tail(parts), " ")) ELSE @]
        ELSE v
      withTrim(v, g4) == IF Truthy(g4) /\ ~Truthy(v.trim) THEN [v EXCEPT !.trim = g4] ELSE v
      named(match) ==
        IF ~match.ok THEN vehicle
        ELSE withTrim(withModel(fillIn(fillIn(vehicle, "year", ParseInt(match.g1)),
                                       "make", S(match.g2)),
                                SplitSpaces(Trim(match.g3))),
                      match.g4)
  IN named(titleRegex(text))

\* one [itemprop] of a microdata element, <<propName, content>>
microdataProperty(prop, vehicle) ==
  LET propName == prop[1]
      content == prop[2]
  IN IF content = "" THEN vehicle
     ELSE CASE propName \in {"name", "model"} -> parseVehicleName(content, vehicle)
            [] propName \in {"brand", "manufacturer"} -> [vehicle EXCEPT !.make = S(content)]
            [] propName \in {"productionDate", "modelYear"} ->
                 [vehicle EXCEPT !.year = ParseInt(content)]
            [] propName \in {"price", "offers"} ->
                 IF firstDigits(content) # ""
                 THEN [vehicle EXCEPT !.price = ParseInt(firstDigits(content))] ELSE vehicle
            [] propName \in {"mileageFromOdometer", "mileage"} ->
                 IF firstDigits(content) # ""
                 THEN [vehicle EXCEPT !.mileage = ParseInt(firstDigits(content))] ELSE vehicle
            [] propName \in {"vehicleIdentificationNumber", "vin"} ->
                 [vehicle EXCEPT !.vin = S(content)]
            [] propName = "color" ->
                 IF ~Truthy(vehicle.exteriorColor)
                 THEN [vehicle EXCEPT !.exteriorColor = S(content)] ELSE vehicle
            [] propName = "description" -> [vehicle EXCEPT !.description = S(content)]
            [] OTHER -> vehicle

RECURSIVE extractFromMicrodata(_, _)
extractFromMicrodata(properties, vehicle) ==
  IF properties = <<>> THEN vehicle
  ELSE extractFromMicrodata(Tail(properties), microdataProperty(Head(properties), vehicle))

needsName(vehicle) ==
  ~Truthy(vehicle.year) \/ ~Truthy(vehicle.make) \/ ~Truthy(vehicle.model)

\* the og: tags, then the twitter: tags, each <<property or name, content>>
RECURSIVE metaTags(_, _)
metaTags(tags, vehicle) ==
  IF tags = <<>> THEN vehicle
  ELSE LET property == Head(tags)[1]
           content == Head(tags)[2]
       IN metaTags(Tail(tags),
            IF content = "" THEN vehicle
            ELSE IF property \in {"og:title", "twitter:title"}
            THEN (IF needsName(vehicle) THEN parseVehicleName(content, vehicle) ELSE vehicle)
            ELSE IF property = "og:description" /\ ~Truthy(vehicle.description)
            THEN [vehicle EXCEPT !.description = S(content)]
            ELSE vehicle)

extractFromOpenGraph(doc, vehicle) == metaTags(doc.twitterTags, metaTags(doc.ogTags, vehicle))

\* data.offers.price.toString()
priceString(price) == IF price.t = "num" THEN ToString(price.v) ELSE price.v

\* parseInt(value) of a JSON number or string
parseIntValue(value) == IF value.t = "num" THEN value ELSE ParseInt(value.v)

\* one JSON-LD script: a script that does not parse is ignored; a Vehicle or
\* Car assigns every property it carries
structuredDataScript(data, vehicle) ==
  LET assign(v, present, field, value) ==
        IF present THEN [v EXCEPT ![field] = value] ELSE v
      amount(text) == IF text # "" THEN ParseInt(text) ELSE U
  IN IF ~data.valid \/ data.type \notin {"Vehicle", "Car"} THEN vehicle
     ELSE assign(assign(assign(assign(assign(assign(assign(assign(
            IF Truthy(data.name) THEN parseVehicleName(data.name.v, vehicle) ELSE vehicle,
            Truthy(data.brand), "make", data.brand),
            Truthy(data.model), "model", data.model),
            Truthy(data.productionDate), "year", parseIntValue(data.productionDate)),
            Truthy(data.price) /\ firstDigits(priceString(data.price)) # "",
              "price", amount(firstDigits(priceString(data.price)))),
            Truthy(data.mileageFromOdometer), "mileage",
              parseIntValue(data.mileageFromOdometer)),
            Truthy(data.vehicleIdentificationNumber), "vin", data.vehicleIdentificationNumber),
            Truthy(data.color), "exteriorColor", data.color),
            Truthy(data.description), "description", data.description)

RECURSIVE extractFromStructuredData(_, _)
extractFromStructuredData(scripts, vehicle) ==
  IF scripts = <<>> THEN vehicle
  ELSE extractFromStructuredData(Tail(scripts), structuredDataScript(Head(scripts), vehicle))

\* the first heading that looks like a vehicle title is parsed
RECURSIVE headingName(_, _)
headingName(headings, vehicle) ==
  IF headings = <<>> THEN vehicle
  ELSE IF looksLikeVehicleTitle(Trim(Head(headings)))
  THEN parseVehicleName(Trim(Head(headings)), vehicle)
  ELSE headingName(Tail(headings), vehicle)

\* text.match(/\$[\d,]+/)[0] without "$" and ",", "" when there is no match
dollarAmount(text) ==
  LET at == {i \in 1..Len(text) : Ch(text, i) = "$"
                                   /\ RunOf(DigitSet \cup {","}, text, i + 1) > 0}
  IN IF at = {} THEN ""
     ELSE StripChars(SubSeq(text, SetMin(at) + 1,
                            SetMin(at) + RunOf(DigitSet \cup {","}, text, SetMin(at) + 1)), ",")

\* the first price element with an amount over 1000 and under 1000000
RECURSIVE heuristicPrice(_)
heuristicPrice(priceElements) ==
  IF priceElements = <<>> THEN U
  ELSE LET price == ParseInt(dollarAmount(Head(priceElements)))
       IN IF price.t = "num" /\ price.v > 1000 /\ price.v < 1000000 THEN price
          ELSE heuristicPrice(Tail(priceElements))

RECURSIVE heuristicDealerName(_)
heuristicDealerName(dealerElements) ==
  IF dealerElements = <<>> THEN U
  ELSE LET text == Trim(Head(dealerElements))
       IN IF Len(text) > 3 /\ Len(text) < 100 THEN S(text)
          ELSE heuristicDealerName(Tail(dealerElements))

specKeywords ==
  << <<"transmission", <<"transmission", "trans", "automatic", "manual", "cvt">> >>,
     <<"drivetrain", <<"drivetrain", "drive", "awd", "fwd", "rwd", "4wd">> >>,
     <<"engine", <<"engine", "motor", "cylinder", "liter", "turbo">> >>,
     <<"fuelType", <<"fuel", "gas", "gasoline", "diesel", "electric", "hybrid">> >>,
     <<"exteriorColor", <<"exterior color", "color", "paint">> >>,
     <<"interiorColor", <<"interior color", "interior">> >>,
     <<"bodyStyle", <<"body style", "body type", "sedan", "suv", "truck", "coupe",
                      "hatchback">> >> >>

\* the value found by the first keyword whose labelled element has a text of
\* 2 to 99 characters
RECURSIVE proximityValue(_, _)
proximityValue(doc, keywords) ==
  IF keywords = <<>> THEN U
  ELSE LET element == findByLabel(doc, <<Head(keywords)>>)
       IN IF element # U /\ Len(Trim(element.v)) > 1 /\ Len(Trim(element.v)) < 100
          THEN S(Trim(element.v))
          ELSE proximityValue(doc, Tail(keywords))

RECURSIVE extractSpecsByProximity(_, _, _)
extractSpecsByProximity(doc, k, vehicle) ==
  IF k > Len(specKeywords) THEN vehicle
  ELSE LET field == specKeywords[k][1]
           value == proximityValue(doc, specKeywords[k][2])
       IN extractSpecsByProximity(doc, k + 1,
            IF ~Truthy(vehicle[field]) /\ value # U
            THEN [vehicle EXCEPT ![field] = value] ELSE vehicle)

\* extractFromHeuristics: the page text is read for the mileage and the VIN
\* when they are missing, and always for the dealer's phone
extractFromHeuristics(doc, c) ==
  LET fillFound(v, field, value) ==
        IF ~Truthy(v[field]) /\ value # U THEN [v EXCEPT ![field] = value] ELSE v
      miles(text) == IF text # "" THEN ParseInt(StripChars(text, ",")) ELSE U
      found(text) == IF text # "" THEN S(text) ELSE U
      withPhone(dealer, phone) ==
        IF phone # "" THEN [dealer EXCEPT !.phone = S(phone)] ELSE dealer
      pageText == doc.body.v
  IN IF doc.body = NullBody THEN Throw(c, NullBodyMessage)
     ELSE [c EXCEPT
             !.vehicle =
                extractSpecsByProximity(doc, 1,
                  fillFound(fillFound(fillFound(
                    IF needsName(c.vehicle) THEN headingName(doc.headings, c.vehicle)
                    ELSE c.vehicle,
                    "price", heuristicPrice(doc.priceElements)),
                    "mileage", miles(mileageRegex(pageText))),
                    "vin", found(vinRegex(pageText)))),
             !.dealer =
                withPhone(fillFound(c.dealer, "name", heuristicDealerName(doc.dealerElements)),
                          phoneRegex(pageText))]

-----------------------------------------------------------------------------
(* An adapter's scrape(), step by step, on bounded documents *)

photoSelectors(adapter) ==
  CASE adapter = "AutoTrader" ->
         <<".vehicle-gallery img", "[data-cmp=\"vehicleGallery\"] img",
           ".gallery-thumbnail img", ".hero-image img">>
    [] adapter = "Cars.com" ->
         <<"[data-testid^=\"gallery-image\"] img", ".vehicle-gallery img",
           ".image-gallery img", ".listing-photos img">>
    [] adapter = "CarGurus" ->
         <<".cg-listingDetail-photoViewer img", ".vehicle-photos img",
           ".image-gallery img", ".listing-gallery img">>
    [] adapter = "Dealer.com" ->
         <<".vehicle-gallery img", ".photo-gallery img", ".image-gallery img",
           ".vdp-photos img">>
    [] adapter = "Generic" ->
         <<".gallery img", ".photos img", ".images img", "[class*=\"gallery\"] img",
           "[class*=\"photo\"] img", "[id*=\"gallery\"] img", "[id*=\"photo\"] img">>

SampleVin == "1HGCM82633A004352"

\* a gallery image every adapter's selectors reach
GalleryImage ==
  Element("img", {".vehicle-gallery img", ".image-gallery img", ".gallery img"},
          "https://cdn.dealer.com/v/1.jpg", "", NoData, "hero-image", "",
          <<1024, 768>>, <<0, 0>>, <<>>)

\* the gallery of a document and whether the collector's promise rejects
Galleries ==
  {[dom |-> <<>>, collector |-> "resolves"],
   [dom |-> <<GalleryImage>>, collector |-> "resolves"],
   [dom |-> <<>>, collector |-> "rejects"]}

NoLabels == <<>>

\* the specification blocks of a listing: none, or a list with a dt/dd pair,
\* a table, data attributes and labelled fields
SpecBlocks ==
  {[specs |-> U, specTable |-> U, dataAttributes |-> U, labelled |-> NoLabels],
   [specs |-> [items |-> << <<"li", "Transmission: CVT Automatic">>,
                            <<"dt", "Fuel">>, <<"dd", "Gasoline">>,
                            <<"li", "Drive Type AWD">> >>],
    specTable |-> [rows |-> << <<"Engine", "2.0L 4 cyl">>, <<"Body", "sedan">> >>],
    dataAttributes |-> [make |-> "Honda", model |-> "Accord", year |-> "2022"],
    labelled |-> ("vin" :> SampleVin) @@ ("color" :> "Blue")],
   \* a labelled VIN input: the textContent of a form element is empty
   [specs |-> U, specTable |-> U, dataAttributes |-> U, labelled |-> ("vin" :> "")]}

PageTexts ==
  {NullBody, S(""), S("Only 15,234 miles! VIN " \o SampleVin \o " call 555.123.4567")}

SiteDocuments ==
  {[title |-> title, price |-> price, mileage |-> mileage, body |-> body,
    specs |-> block.specs, specTable |-> block.specTable,
    dataAttributes |-> block.dataAttributes, labelled |-> block.labelled,
    vinElement |-> vinElement, dealerName |-> dealer[1], dealerContact |-> dealer[2],
    description |-> description, dom |-> gallery.dom, collector |-> gallery.collector] :
     title \in {U, S("2023 Honda Civic LX"), S(" Used 2021 Ford F-150 XLT ")},
     price \in {U, S("$25,999")},
     mileage \in {U, S("15,234 mi")},
     body \in PageTexts,
     block \in SpecBlocks,
     vinElement \in {U, S(SampleVin), S("VIN " \o SampleVin), S(" ")},
     dealer \in {<<U, U>>,
                 <<S("Honda of Downtown"), S("555-123-4567 Springfield, IL 62701")>>},
     description \in {U, S(" One owner.  Call 555-123-4567 ")},
     gallery \in Galleries}

\* a JSON-LD script: one that does not parse, or its @type and properties
JsonLd(type, name, brand, model, productionDate, price, mileage, vin, color, description) ==
  [valid |-> TRUE, type |-> type, name |-> name, brand |-> brand, model |-> model,
   productionDate |-> productionDate, price |-> price, mileageFromOdometer |-> mileage,
   vehicleIdentificationNumber |-> vin, color |-> color, description |-> description]

GenericDocuments ==
  {[microdata |-> microdata, ogTags |-> meta[1], twitterTags |-> meta[2],
    jsonLd |-> jsonLd, headings |-> page.headings, priceElements |-> page.priceElements,
    body |-> page.body, dealerElements |-> page.dealerElements,
    labelled |-> page.labelled, dom |-> gallery.dom, collector |-> gallery.collector] :
     microdata \in
       {<<>>,
        << <<"brand", "BMW">>, <<"modelYear", "2020">>, <<"price", "$31,500">>,
           <<"description", "">> >>,
        << <<"name", "2023 Honda Civic LX">>, <<"color", "Blue">>, <<"vin", SampleVin>>,
           <<"mileage", "15234 mi">> >>},
     meta \in
       {<< <<>>, <<>> >>,
        << << <<"og:title", "2019 Toyota Camry SE">>, <<"og:description", "Clean title">> >>,
           <<>> >>,
        << << <<"og:title", "Great deal">> >>, << <<"twitter:title", "2018 Ford Focus">> >> >>},
     jsonLd \in
       {<<>>,
        <<[valid |-> FALSE]>>,
        <<JsonLd("Car", U, S("Audi"), S("A4"), S("2021"), N(28900), S("42000"),
                 S("WAUZZZ8K9BA123456"), S("Black"), S("Quattro, one owner"))>>,
        <<JsonLd("Product", S("2015 Kia Soul"), S("Kia"), U, U, U, U, U, U, U),
          JsonLd("Vehicle", S("2016 Subaru Outback Limited"), U, U, U, S("$17,250"),
                 U, U, U, U)>>},
     page \in
       {[headings |-> <<>>, priceElements |-> <<>>, body |-> S(""),
         dealerElements |-> <<>>, labelled |-> NoLabels],
        [headings |-> <<>>, priceElements |-> <<>>, body |-> NullBody,
         dealerElements |-> <<>>, labelled |-> NoLabels],
        [headings |-> <<"Welcome", "2017 Mazda CX5 Touring">>,
         priceElements |-> <<"$500 off", "Now $19,995">>,
         body |-> S("Only 15,234 miles! VIN " \o SampleVin \o " call 555.123.4567"),
         dealerElements |-> <<"Go", "Mazda of Springfield">>,
         labelled |-> ("automatic" :> "8-speed") @@ ("color" :> "Red") @@ ("fuel" :> "x")]},
     gallery \in Galleries}

\* the document in which nothing is found
EmptySiteDocument ==
  [title |-> U, price |-> U, mileage |-> U, body |-> S(""), specs |-> U, specTable |-> U,
   dataAttributes |-> U, labelled |-> NoLabels, vinElement |-> U, dealerName |-> U,
   dealerContact |-> U, description |-> U, dom |-> <<>>, collector |-> "resolves"]

EmptyGenericDocument ==
  [microdata |-> <<>>, ogTags |-> <<>>, twitterTags |-> <<>>, jsonLd |-> <<>>,
   headings |-> <<>>, priceElements |-> <<>>, body |-> S(""), dealerElements |-> <<>>,
   labelled |-> NoLabels, dom |-> <<>>, collector |-> "resolves"]

AdStart(name, doc) ==
  [pc |-> IF name = "Generic" THEN "microdata" ELSE "title", name |-> name, doc |-> doc,
   c |-> NewContext, photos |-> <<>>, steps |-> <<>>, outcome |-> "pending",
   error |-> "", result |-> NoResult]

AdInit ==
  /\ ad \in {AdStart(name, doc) : name \in AdapterNames \ {"Generic"}, doc \in SiteDocuments}
            \cup {AdStart("Generic", doc) : doc \in GenericDocuments}
  /\ nz = Off /\ eng = Off /\ ph = Off /\ uf = Off /\ st = Off /\ rq = Off /\ pr = Off
  /\ wt = Off /\ fb = Off
  /\ db = Off /\ bg = Off /\ ct = Off

\* The step at ad.pc has produced context c: the next step follows, unless
\* the step threw; then the catch of scrape() logs and throws
\* '<name> scraping failed: <message>'.
AdAfter(step, c, next) ==
  IF c.threw
  THEN [ad EXCEPT !.pc = "done", !.c = c, !.steps = Append(@, step), !.outcome = "threw",
                  !.error = ad.name \o " scraping failed: " \o c.message]
  ELSE [ad EXCEPT !.pc = next, !.c = c, !.steps = Append(@, step)]

AdTitle ==
  /\ ad.pc = "title"
  /\ ad' = AdAfter("title", extractTitleInfo(ad.doc, ad.c), "price")
  /\ UNCHANGED <<nz, eng, ph, uf, st, rq, pr, wt, fb, db, bg, ct>>

AdPriceAndMileage ==
  /\ ad.pc = "price"
  /\ ad' = AdAfter("price", extractPriceAndMileage(ad.doc, ad.c), "specs")
  /\ UNCHANGED <<nz, eng, ph, uf, st, rq, pr, wt, fb, db, bg, ct>>

AdSpecs ==
  /\ ad.pc = "specs"
  /\ ad' = AdAfter("specs", extractSpecs(ad.name, ad.doc, ad.c), "dealer")
  /\ UNCHANGED <<nz, eng, ph, uf, st, rq, pr, wt, fb, db, bg, ct>>

AdDealerInfo ==
  /\ ad.pc = "dealer"
  /\ ad' = AdAfter("dealer", extractDealerInfo(ad.doc, ad.c), "vin")
  /\ UNCHANGED <<nz, eng, ph, uf, st, rq, pr, wt, fb, db, bg, ct>>

AdVIN ==
  /\ ad.pc = "vin"
  /\ ad' = AdAfter("vin", extractVIN(ad.name, ad.doc, ad.c), "description")
  /\ UNCHANGED <<nz, eng, ph, uf, st, rq, pr, wt, fb, db, bg, ct>>

AdDescription ==
  /\ ad.pc = "description"
  /\ ad' = AdAfter("description", extractDescription(ad.doc, ad.c), "photos")
  /\ UNCHANGED <<nz, eng, ph, uf, st, rq, pr, wt, fb, db, bg, ct>>

GenMicrodata ==
  /\ ad.pc = "microdata"
  /\ ad' = AdAfter("microdata",
                   [ad.c EXCEPT !.vehicle = extractFromMicrodata(ad.doc.microdata, @)],
                   "opengraph")
  /\ UNCHANGED <<nz, eng, ph, uf, st, rq, pr, wt, fb, db, bg, ct>>

GenOpenGraph ==
  /\ ad.pc = "opengraph"
  /\ ad' = AdAfter("opengraph",
                   [ad.c EXCEPT !.vehicle = extractFromOpenGraph(ad.doc, @)], "jsonld")
  /\ UNCHANGED <<nz, eng, ph, uf, st, rq, pr, wt, fb, db, bg, ct>>

GenStructuredData ==
  /\ ad.pc = "jsonld"
  /\ ad' = AdAfter("jsonld",
                   [ad.c EXCEPT !.vehicle = extractFromStructuredData(ad.doc.jsonLd, @)],
                   "heuristics")
  /\ UNCHANGED <<nz, eng, ph, uf, st, rq, pr, wt, fb, db, bg, ct>>

GenHeuristics ==
  /\ ad.pc = "heuristics"
  /\ ad' = AdAfter("heuristics", extractFromHeuristics(ad.doc, ad.c), "photos")
  /\ UNCHANGED <<nz, eng, ph, uf, st, rq, pr, wt, fb, db, bg, ct>>

CollectorMessage == "photo collector failed"

\* the adapter's extractPhotos: the collector is awaited inside a try/catch;
\* a rejection becomes a warning and no photos
AdPhotos ==
  /\ ad.pc = "photos"
  /\ LET after(collected) ==
           [ad EXCEPT !.pc = "normalize", !.steps = Append(@, "photos"),
                      !.photos = IF collected.threw THEN <<>> ELSE collected.photos,
                      !.c.warnings =
                         IF collected.threw
                         THEN Append(@, "Failed to extract photos: " \o collected.message)
                         ELSE @]
     IN ad' = after(IF ad.doc.collector = "rejects"
                    THEN [threw |-> TRUE, message |-> CollectorMessage]
                    ELSE extractPhotos(photoSelectors(ad.name), ad.doc.dom))
  /\ UNCHANGED <<nz, eng, ph, uf, st, rq, pr, wt, fb, db, bg, ct>>

\* normalizeVehicleData, then the ScrapeResult is assembled and returned
AdReturn ==
  /\ ad.pc = "normalize"
  /\ ad' = [ad EXCEPT !.pc = "done", !.outcome = "returned",
                      !.result = [vehicle |-> normalizeVehicleData(ad.c.vehicle),
                                  dealer |-> ad.c.dealer, photos |-> ad.photos,
                                  sourceUrl |-> location.origin \o location.pathname,
                                  scrapedAt |-> 1, warnings |-> ad.c.warnings,
                                  id |-> idPrefix(ad.name) \o "_1_k3j9x2m1a"]]
  /\ UNCHANGED <<nz, eng, ph, uf, st, rq, pr, wt, fb, db, bg, ct>>

AdNext ==
  \/ AdTitle \/ AdPriceAndMileage \/ AdSpecs \/ AdDealerInfo \/ AdVIN \/ AdDescription
  \/ GenMicrodata \/ GenOpenGraph \/ GenStructuredData \/ GenHeuristics
  \/ AdPhotos \/ AdReturn

SpecAdapter == AdInit /\ [][AdNext]_vars

-----------------------------------------------------------------------------
(* Properties of an adapter's scrape() *)

\* C2: scrape() of any of the five adapters on the empty document does not
\* throw: it returns a result whose vehicle is defined and whose warnings
\* hold an entry for the title that was not found (year, make and model come
\* from it) and an entry for the price that was not found.
C2_EmptyDocumentWarnings ==
  (ad.pc = "done" /\ ad.doc \in {EmptySiteDocument, EmptyGenericDocument}) =>
    /\ ad.outcome = "returned"
    /\ DOMAIN ad.result.vehicle = VehicleFields
    /\ \E k \in 1..Len(ad.result.warnings) :
         Includes(ToLower(ad.result.warnings[k]), "title")
    /\ \E k \in 1..Len(ad.result.warnings) :
         Includes(ToLower(ad.result.warnings[k]), "price")

C4_FirstFoundWins ==
  [][(ad.name = "Generic" /\ ad.pc \in {"opengraph", "jsonld", "heuristics"}) =>
       \A f \in {"make", "model", "year", "price", "mileage", "vin", "exteriorColor",
                 "description"} :
         Truthy(ad.c.vehicle[f]) => ad'.c.vehicle[f] = ad.c.vehicle[f]]_vars

-----------------------------------------------------------------------------
(* A scrape request, from the message to the response: the popup's          *)
(* SCRAPE_PAGE goes through the background's handleScrapeRequest and the    *)
(* content script's vehicleScraper.scrape, SCRAPE_NOW is answered by the    *)
(* content script itself                                                    *)

RequestTypes == {"SCRAPE_PAGE", "SCRAPE_NOW"}

\* one page per adapter, and one that no adapter takes
RequestUrls ==
  { "https://www.autotrader.com/vehicle/123",
    "https://www.cars.com/vehicledetail/9f3/",
    "https://www.cargurus.com/Cars/l-Used-Honda-Civic",
    "https://smith.dealer.com/inventory/used/",
    "https://example.org/used-car/42",
    "https://example.org/about" }

\* what an exception inside an adapter's scrape() may say
ScrapeFailures == {NullBodyMessage, "Maximum call stack size exceeded"}

\* the results an adapter may resolve to; key identifies the result in storage
RequestResults ==
  {[vehicle |-> [EmptyVehicle EXCEPT !.year = y, !.make = S("Honda"), !.price = N(25999)],
    dealer |-> [name |-> U], photos |-> <<>>, sourceUrl |-> "", scrapedAt |-> 1,
    warnings |-> <<>>, id |-> "r", key |-> 100] : y \in {U, N(2023)}}

RqInit ==
  /\ rq \in {[pc |-> "received", type |-> type, tabId |-> tabId, url |-> url,
              adapter |-> "none", adapterThrew |-> FALSE, engine |-> NoResult,
              scraped |-> NoResult, store |-> History(n), before |-> History(n),
              response |-> NoResult] :
               type \in RequestTypes, tabId \in {U, N(7)}, url \in RequestUrls,
               n \in {0, HistoryCap}}
  /\ nz = Off /\ eng = Off /\ ad = Off /\ ph = Off /\ uf = Off /\ st = Off /\ pr = Off
  /\ wt = Off /\ fb = Off
  /\ db = Off /\ bg = Off /\ ct = Off

\* handleScrapeRequest: the message came without a tab
RqNoTab ==
  /\ rq.pc = "received" /\ rq.type = "SCRAPE_PAGE" /\ rq.tabId = U
  /\ rq' = [rq EXCEPT !.pc = "done", !.response = [error |-> "No active tab"]]
  /\ UNCHANGED <<nz, eng, ad, ph, uf, st, pr, wt, fb, db, bg, ct>>

\* chrome.scripting.executeScript rejects: the tab cannot be scripted
RqExecuteScriptRejects ==
  /\ rq.pc = "received" /\ rq.type = "SCRAPE_PAGE" /\ rq.tabId # U
  /\ rq' = [rq EXCEPT !.pc = "done",
                      !.response = [error |-> "Failed to scrape page: "
                                                \o "Cannot access contents of the page"]]
  /\ UNCHANGED <<nz, eng, ad, ph, uf, st, pr, wt, fb, db, bg, ct>>

\* the request reaches scrapeCurrentPage in the tab
RqReachesEngine == rq.pc = "received" /\ (rq.type = "SCRAPE_NOW" \/ rq.tabId # U)

\* scrapeCurrentPage: no adapter takes the page
RqEngineNoAdapter ==
  /\ RqReachesEngine
  /\ findAdapter(HostnameOf(rq.url), rq.url) = "none"
  /\ rq' = [rq EXCEPT !.pc = "engine",
                      !.engine = [threw |-> TRUE,
                                  message |-> "No suitable adapter found for this site"]]
  /\ UNCHANGED <<nz, eng, ad, ph, uf, st, pr, wt, fb, db, bg, ct>>

\* scrapeCurrentPage: the adapter's scrape() resolves, the result is validated
RqEngineReturns ==
  /\ RqReachesEngine
  /\ findAdapter(HostnameOf(rq.url), rq.url) # "none"
  /\ \E r \in RequestResults :
       rq' = [rq EXCEPT !.pc = "engine",
                        !.adapter = findAdapter(HostnameOf(rq.url), rq.url),
                        !.engine = [threw |-> FALSE,
                                    result |-> validateScrapeResult(r, 2026)]]
  /\ UNCHANGED <<nz, eng, ad, ph, uf, st, pr, wt, fb, db, bg, ct>>

\* scrapeCurrentPage: the adapter's scrape() rejects with '<name> scraping
\* failed: <message>'; the engine logs the error and throws it again
RqEngineThrows ==
  /\ RqReachesEngine
  /\ findAdapter(HostnameOf(rq.url), rq.url) # "none"
  /\ \E failure \in ScrapeFailures :
       rq' = [rq EXCEPT !.pc = "engine",
                        !.adapter = findAdapter(HostnameOf(rq.url), rq.url),
                        !.adapterThrew = TRUE,
                        !.engine = [threw |-> TRUE,
                                    message |-> findAdapter(HostnameOf(rq.url), rq.url)
                                                  \o " scraping failed: " \o failure]]
  /\ UNCHANGED <<nz, eng, ad, ph, uf, st, pr, wt, fb, db, bg, ct>>

\* SCRAPE_NOW: .then(result => sendResponse({ success: true, result }))
\*             .catch(error => sendResponse({ error: error.message }))
RqContentResponds ==
  /\ rq.pc = "engine" /\ rq.type = "SCRAPE_NOW"
  /\ rq' = [rq EXCEPT !.pc = "done",
                      !.response = IF rq.engine.threw
                                   THEN [error |-> rq.engine.message]
                                   ELSE [success |-> TRUE, result |-> rq.engine.result]]
  /\ UNCHANGED <<nz, eng, ad, ph, uf, st, pr, wt, fb, db, bg, ct>>

\* vehicleScraper.scrape: the engine's result, or null when the engine threw
RqScraperReturns ==
  /\ rq.pc = "engine" /\ rq.type = "SCRAPE_PAGE"
  /\ rq' = [rq EXCEPT !.pc = "background",
                      !.scraped = IF rq.engine.threw THEN [t |-> "null"]
                                  ELSE rq.engine.result]
  /\ UNCHANGED <<nz, eng, ad, ph, uf, st, pr, wt, fb, db, bg, ct>>

\* handleScrapeRequest: nothing came back from the tab
RqBackgroundNoData ==
  /\ rq.pc = "background" /\ rq.scraped = [t |-> "null"]
  /\ rq' = [rq EXCEPT !.pc = "done",
                      !.response = [error |-> "No data scraped from this page"]]
  /\ UNCHANGED <<nz, eng, ad, ph, uf, st, pr, wt, fb, db, bg, ct>>

\* handleScrapeRequest: the result is saved (a failed write is logged and
\* swallowed by saveScrapeResult) and sent back
RqBackgroundSaves ==
  /\ rq.pc = "background" /\ rq.scraped # [t |-> "null"]
  /\ \E written \in BOOLEAN :
       rq' = [rq EXCEPT !.pc = "done",
                        !.store = IF written THEN backgroundSave(@, rq.scraped.key) ELSE @,
                        !.response = [success |-> TRUE, result |-> rq.scraped]]
  /\ UNCHANGED <<nz, eng, ad, ph, uf, st, pr, wt, fb, db, bg, ct>>

RqNext ==
  \/ RqNoTab \/ RqExecuteScriptRejects
  \/ RqEngineNoAdapter \/ RqEngineReturns \/ RqEngineThrows
  \/ RqContentResponds \/ RqScraperReturns
  \/ RqBackgroundNoData \/ RqBackgroundSaves

SpecRequest == RqInit /\ [][RqNext]_vars

\* C11: when the selected adapter's scrape() raised an exception, the request
\* ends without a result, nothing is stored, and the error in the response
\* names the adapter that failed.
C11_AdapterFatal ==
  (rq.pc = "done" /\ rq.adapterThrew) =>
    /\ "result" \notin DOMAIN rq.response
    /\ rq.store = rq.before
    /\ "error" \in DOMAIN rq.response
    /\ Includes(rq.response.error, rq.adapter)

-----------------------------------------------------------------------------
(* SelectorProbe: findElement and findElements over a table of selectors *)

\* null, where an element is a position of the document (1..Len(dom))
NoElement == 0

\* the first element matched by any selector of the table, in document order
findElement_DocumentOrder(selectors, dom) ==
  LET hits == {i \in 1..Len(dom) : \E k \in 1..Len(selectors) : selectors[k] \in dom[i].matches}
  IN IF hits = {} THEN NoElement ELSE CHOOSE i \in hits : \A j \in hits : i <= j

\* findElement(selectors): document.querySelector per selector inside its own
\* try/catch; the first truthy element is returned, null after the loop
RECURSIVE findElement(_, _)
findElement(selectors, dom) ==
  IF selectors = <<>> THEN NoElement
  ELSE IF malformedSelector(Head(selectors)) THEN findElement(Tail(selectors), dom)
  ELSE IF querySelectorAll(dom, Head(selectors)) # <<>>
       THEN Head(querySelectorAll(dom, Head(selectors)))
  ELSE findElement(Tail(selectors), dom)

\* Array.from(new Set(elements)): the first occurrence of each element
RECURSIVE unique(_, _)
unique(elements, acc) ==
  IF elements = <<>> THEN acc
  ELSE unique(Tail(elements),
              IF \E k \in 1..Len(acc) : acc[k] = Head(elements) THEN acc
              ELSE Append(acc, Head(elements)))

\* the loop of findElements: querySelectorAll per selector inside its own
\* try/catch, every match pushed
RECURSIVE pushMatches(_, _, _)
pushMatches(selectors, dom, elements) ==
  IF selectors = <<>> THEN elements
  ELSE pushMatches(Tail(selectors), dom,
                   IF malformedSelector(Head(selectors)) THEN elements
                   ELSE elements \o querySelectorAll(dom, Head(selectors)))

findElements(selectors, dom) == unique(pushMatches(selectors, dom, <<>>), <<>>)

MaxSelectors == 3
MaxElements == 2

ProbeSelectors == {".price", "[data-price]", "..price", "span >"}

ProbeSelectorLists == UNION {[1..n -> ProbeSelectors] : n \in 0..MaxSelectors}

ProbeDocuments ==
  UNION {[1..n -> {[matches |-> ms] : ms \in SUBSET {".price", "[data-price]"}}] :
           n \in 0..MaxElements}

PrInit ==
  /\ pr \in {[pc |-> "ready", dom |-> d, selectors |-> s, op |-> "", result |-> NoResult] :
               d \in ProbeDocuments, s \in ProbeSelectorLists}
  /\ nz = Off /\ eng = Off /\ ad = Off /\ ph = Off /\ uf = Off /\ st = Off /\ rq = Off
  /\ wt = Off /\ fb = Off
  /\ db = Off /\ bg = Off /\ ct = Off

PrFindElement ==
  /\ pr.pc = "ready"
  /\ pr' = [pr EXCEPT !.pc = "done", !.op = "findElement",
                      !.result = [threw |-> FALSE,
                                  element |-> findElement(pr.selectors, pr.dom)]]
  /\ UNCHANGED <<nz, eng, ad, ph, uf, st, rq, wt, fb, db, bg, ct>>

PrFindElements ==
  /\ pr.pc = "ready"
  /\ pr' = [pr EXCEPT !.pc = "done", !.op = "findElements",
                      !.result = [threw |-> FALSE,
                                  elements |-> findElements(pr.selectors, pr.dom)]]
  /\ UNCHANGED <<nz, eng, ad, ph, uf, st, rq, wt, fb, db, bg, ct>>

PrNext == PrFindElement \/ PrFindElements

SpecProbe == PrInit /\ [][PrNext]_vars

\* the selectors of the table that the document accepts and that match something
MatchingSelectors(selectors, dom) ==
  {k \in 1..Len(selectors) : \E i \in 1..Len(dom) : selectors[k] \in dom[i].matches}

\* C12: a malformed selector in the table given to extractPhotos is treated
\* as "no match": the operation does not throw (and the other selectors still
\* contribute their matches).
C12_InvalidSelectorsContained ==
  ph.pc = "done" => ~ph.result.threw

\* What does hold, for the two SelectorProbe operations: a malformed selector
\* contributes nothing and the matches of the other selectors are all there.
ProbeContainsInvalidSelectors ==
  (pr.pc = "done" /\ pr.op = "findElements") =>
    /\ ~pr.result.threw
    /\ {pr.result.elements[k] : k \in 1..Len(pr.result.elements)}
         = {i \in 1..Len(pr.dom) : \E k \in 1..Len(pr.selectors) :
                                      pr.selectors[k] \in pr.dom[i].matches}

\* C13: findElement returns the first match, in the document, of the first
\* selector of the list that matches anything, and null exactly when no
\* selector of the list matches.
C13_SelectorFallbackOrder ==
  (pr.pc = "done" /\ pr.op = "findElement") =>
    LET matching == MatchingSelectors(pr.selectors, pr.dom)
    IN IF matching = {} THEN pr.result.element = NoElement
       ELSE LET first == CHOOSE k \in matching : \A j \in matching : k <= j
            IN /\ pr.result.element # NoElement
               /\ pr.selectors[first] \in pr.dom[pr.result.element].matches
               /\ \A i \in 1..(pr.result.element - 1) :
                    pr.selectors[first] \notin pr.dom[i].matches

\* a malformed selector and a selector without a match come first, a later
\* selector matches the first element, and the second element is returned
C13_Witness ==
  /\ pr.pc = "done" /\ pr.op = "findElement"
  /\ Len(pr.selectors) = 3 /\ Len(pr.dom) = 2
  /\ malformedSelector(pr.selectors[1])
  /\ pr.selectors[3] \in pr.dom[1].matches
  /\ pr.selectors[2] \notin pr.dom[1].matches
  /\ pr.result.element = 2

-----------------------------------------------------------------------------
(* Properties of normalizeVehicleData on transmission, VIN and the numbers *)

\* C14: the transmission rules are tried with CVT before Automatic: an input
\* containing "cvt" normalizes to "CVT" even when it also contains
\* "automatic"; an input matching no rule is title-cased.
C14_TransmissionTableOrder ==
  (nz.pc # "raw" /\ Truthy(nz.raw.transmission)) =>
    LET cleaned == Trim(ToLower(nz.raw.transmission.v))
    IN nz.out.transmission =
         S(IF Includes(cleaned, "cvt") THEN "CVT"
           ELSE IF Includes(cleaned, "automatic") \/ Includes(cleaned, "auto")
                THEN "Automatic"
           ELSE IF Includes(cleaned, "manual") \/ Includes(cleaned, "stick") THEN "Manual"
           ELSE titleCase(nz.raw.transmission.v))

\* characters written between the characters of a VIN
VinSeparators == "- ./\t\n"

\* C15: a 17-character VIN over [A-HJ-NPR-Z0-9] written in any case with
\* separators comes out as those 17 characters in upper case; a VIN whose
\* stripped form is not 17 long comes out undefined.
C15_VinRoundTrip ==
  (nz.pc # "raw" /\ nz.raw.vin.t = "str") =>
    LET original == ToUpper(StripChars(nz.raw.vin.v, VinSeparators))
    IN /\ (Len(original) = 17 /\ CharSet(original) \subseteq VinCharSet)
            => nz.out.vin = S(original)
       /\ Len(KeepChars(ToUpper(nz.raw.vin.v), VinAlphabet)) # 17 => nz.out.vin = U

\* What does hold: the same, for every VIN string but the empty one.
VinRoundTripNonEmpty ==
  (nz.pc # "raw" /\ nz.raw.vin.t = "str" /\ nz.raw.vin.v # "") =>
    LET original == ToUpper(StripChars(nz.raw.vin.v, VinSeparators))
    IN /\ (Len(original) = 17 /\ CharSet(original) \subseteq VinCharSet)
            => nz.out.vin = S(original)
       /\ Len(KeepChars(ToUpper(nz.raw.vin.v), VinAlphabet)) # 17 => nz.out.vin = U

\* C16: price, mileage and year given as strings follow one rule: "$", ","
\* and white space are stripped and an integer is parsed; without an integer
\* the field is undefined.
C16_NumericParse ==
  nz.pc # "raw" =>
    \A f \in {"price", "mileage", "year"} :
      nz.raw[f].t = "str" =>
        nz.out[f] = (IF ParseInt(StripChars(nz.raw[f].v, "$, \t\n")).t = "nan" THEN U
                     ELSE ParseInt(StripChars(nz.raw[f].v, "$, \t\n")))

\* What does hold for all three: the field is a number or undefined, never NaN.
NumericFieldsNumberOrUndefined ==
  nz.pc # "raw" =>
    \A f \in {"price", "mileage", "year"} :
      nz.raw[f].t = "str" => nz.out[f].t \in {"num", "undef"}

-----------------------------------------------------------------------------
(* Polling: SelectorProbe.waitForElement and FacebookAutofiller's           *)
(* waitForSelector. Time is Date.now() - startTime in milliseconds; the     *)
(* document may change while the loop sleeps.                               *)

PollInterval == 100

\* the longest timeout of the model, and how late a timer may fire
MaxTimeout == 250
MaxLag == 50

Timeouts == {0, PollInterval, MaxTimeout}

WtInit ==
  /\ wt \in {[pc |-> "test", fn |-> fn, timeout |-> timeout, elapsed |-> 0,
              present |-> present, polls |-> <<>>, result |-> "pending"] :
               fn \in {"waitForElement", "waitForSelector"}, timeout \in Timeouts,
               present \in BOOLEAN}
  /\ nz = Off /\ eng = Off /\ ad = Off /\ ph = Off /\ uf = Off /\ st = Off /\ rq = Off
  /\ pr = Off /\ fb = Off
  /\ db = Off /\ bg = Off /\ ct = Off

\* while (Date.now() - startTime < timeout) ... return null
WtLoopTest ==
  /\ wt.pc = "test"
  /\ wt' = IF wt.elapsed < wt.timeout THEN [wt EXCEPT !.pc = "poll"]
           ELSE [wt EXCEPT !.pc = "done", !.result = "null"]
  /\ UNCHANGED <<nz, eng, ad, ph, uf, st, rq, pr, fb, db, bg, ct>>

\* the selectors are tried and one matches: return element
WtPollFinds ==
  /\ wt.pc = "poll" /\ wt.present
  /\ wt' = [wt EXCEPT !.pc = "done", !.result = "element", !.polls = Append(@, TRUE)]
  /\ UNCHANGED <<nz, eng, ad, ph, uf, st, rq, pr, fb, db, bg, ct>>

\* no selector matches: setTimeout(resolve, 100)
WtPollMisses ==
  /\ wt.pc = "poll" /\ ~wt.present
  /\ wt' = [wt EXCEPT !.pc = "sleep", !.polls = Append(@, FALSE)]
  /\ UNCHANGED <<nz, eng, ad, ph, uf, st, rq, pr, fb, db, bg, ct>>

\* the timer fires, no earlier than the interval; the page may have changed
WtTimerFires ==
  /\ wt.pc = "sleep"
  /\ \E lag \in {0, MaxLag}, present \in BOOLEAN :
       wt' = [wt EXCEPT !.pc = "test", !.elapsed = @ + PollInterval + lag,
                        !.present = present]
  /\ UNCHANGED <<nz, eng, ad, ph, uf, st, rq, pr, fb, db, bg, ct>>

WtNext == WtLoopTest \/ WtPollFinds \/ WtPollMisses \/ WtTimerFires

\* the loop's own steps run, and a timer that was set fires
SpecWait == WtInit /\ [][WtNext]_vars /\ WF_vars(WtNext)

\* the polling loop ends
WaitTerminates == <>(wt.pc = "done")

\* the element is returned exactly when a poll saw it, null only once the
\* timeout has elapsed, and the polls are one interval apart at least
WaitResult ==
  /\ Len(wt.polls) * PollInterval < wt.timeout + PollInterval
  /\ wt.pc = "done" =>
       /\ wt.result = "element" <=> (\E k \in 1..Len(wt.polls) : wt.polls[k])
       /\ wt.result = "null" <=> wt.elapsed >= wt.timeout

-----------------------------------------------------------------------------
(* FacebookAutofiller.autofillForm: the form is filled, then the photos are *)
(* converted to files and attached to the file input                        *)

DefaultMaxPhotos == 20

MaxResultPhotos == 3

\* uploadPhotos' slice with every photo kept
FbStartUpload_AllPhotos ==
  /\ fb.pc = "photos" /\ fb.uploadPhotos /\ Len(fb.photos) > 0
  /\ fb' = [fb EXCEPT !.pc = "convert", !.toUpload = fb.photos, !.i = 1]
  /\ UNCHANGED <<nz, eng, ad, ph, uf, st, rq, pr, wt, db, bg, ct>>

\* autofillForm(scrapeResult, options): the photos of the result, in its
\* order, are numbered 1..n
FbInit ==
  /\ fb \in {[pc |-> "start", photos |-> [k \in 1..n |-> k], uploadPhotos |-> up,
              maxPhotos |-> maxPhotos, toUpload |-> <<>>, i |-> 0, fetched |-> <<>>,
              files |-> <<>>, attached |-> <<>>, uploadError |-> "",
              notice |-> "", downloads |-> <<>>, error |-> ""] :
               n \in 0..MaxResultPhotos, up \in BOOLEAN,
               maxPhotos \in {0, 1, 2, DefaultMaxPhotos}}
  /\ nz = Off /\ eng = Off /\ ad = Off /\ ph = Off /\ uf = Off /\ st = Off /\ rq = Off
  /\ pr = Off /\ wt = Off
  /\ db = Off /\ bg = Off /\ ct = Off

\* waitForPageReady: waitForSelector(formSelector, 10000), whatever it
\* returns, then sleep(2000)
FbPageReady ==
  /\ fb.pc = "start"
  /\ fb' = [fb EXCEPT !.pc = "fill"]
  /\ UNCHANGED <<nz, eng, ad, ph, uf, st, rq, pr, wt, db, bg, ct>>

\* fillVehicleDetails, fillLocationInfo, fillDescription: every field is
\* waited for (5000) and filled when found
FbFillForm ==
  /\ fb.pc = "fill"
  /\ fb' = [fb EXCEPT !.pc = "photos"]
  /\ UNCHANGED <<nz, eng, ad, ph, uf, st, rq, pr, wt, db, bg, ct>>

\* a step of the filling throws (a result without dealer): logged, thrown again
FbFillThrows ==
  /\ fb.pc = "fill"
  /\ fb' = [fb EXCEPT !.pc = "failed",
                      !.error = "Cannot read properties of undefined (reading 'city')"]
  /\ UNCHANGED <<nz, eng, ad, ph, uf, st, rq, pr, wt, db, bg, ct>>

\* if (opts.uploadPhotos && photos.length > 0) is false
FbSkipUpload ==
  /\ fb.pc = "photos" /\ ~(fb.uploadPhotos /\ Len(fb.photos) > 0)
  /\ fb' = [fb EXCEPT !.pc = "completed"]
  /\ UNCHANGED <<nz, eng, ad, ph, uf, st, rq, pr, wt, db, bg, ct>>

\* uploadPhotos: photosToUpload = photos.slice(0, maxPhotos), given to urlsToFiles
FbStartUpload ==
  /\ fb.pc = "photos" /\ fb.uploadPhotos /\ Len(fb.photos) > 0
  /\ fb' = [fb EXCEPT !.pc = "convert", !.toUpload = Take(fb.photos, fb.maxPhotos), !.i = 1]
  /\ UNCHANGED <<nz, eng, ad, ph, uf, st, rq, pr, wt, db, bg, ct>>

\* urlsToFiles: await fetch(photo.url)
FbFetch ==
  /\ fb.pc = "convert" /\ fb.i <= Len(fb.toUpload)
  /\ fb' = [fb EXCEPT !.pc = "fetching", !.fetched = Append(@, fb.toUpload[fb.i])]
  /\ UNCHANGED <<nz, eng, ad, ph, uf, st, rq, pr, wt, db, bg, ct>>

\* the response arrives and its blob becomes a File
FbFetchYieldsFile ==
  /\ fb.pc = "fetching"
  /\ fb' = [fb EXCEPT !.pc = "convert", !.i = @ + 1, !.files = Append(@, fb.toUpload[fb.i])]
  /\ UNCHANGED <<nz, eng, ad, ph, uf, st, rq, pr, wt, db, bg, ct>>

\* the response is not ok, or fetch or blob() rejects: the photo is skipped
FbFetchFails ==
  /\ fb.pc = "fetching"
  /\ fb' = [fb EXCEPT !.pc = "convert", !.i = @ + 1]
  /\ UNCHANGED <<nz, eng, ad, ph, uf, st, rq, pr, wt, db, bg, ct>>

\* if (files.length === 0) return
FbNoFiles ==
  /\ fb.pc = "convert" /\ fb.i > Len(fb.toUpload) /\ fb.files = <<>>
  /\ fb' = [fb EXCEPT !.pc = "completed"]
  /\ UNCHANGED <<nz, eng, ad, ph, uf, st, rq, pr, wt, db, bg, ct>>

\* the file input is found and the files are set on it
FbAttach ==
  /\ fb.pc = "convert" /\ fb.i > Len(fb.toUpload) /\ fb.files # <<>>
  /\ fb' = [fb EXCEPT !.pc = "completed", !.attached = fb.files]
  /\ UNCHANGED <<nz, eng, ad, ph, uf, st, rq, pr, wt, db, bg, ct>>

\* waitForSelector returns null after its timeout: 'Could not find file
\* input for photo upload' is thrown and caught
FbNoFileInput ==
  /\ fb.pc = "convert" /\ fb.i > Len(fb.toUpload) /\ fb.files # <<>>
  /\ fb' = [fb EXCEPT !.pc = "fallback",
                      !.uploadError = "Could not find file input for photo upload"]
  /\ UNCHANGED <<nz, eng, ad, ph, uf, st, rq, pr, wt, db, bg, ct>>

\* the file input is found but attaching the files throws; caught
FbAttachThrows ==
  /\ fb.pc = "convert" /\ fb.i > Len(fb.toUpload) /\ fb.files # <<>>
  /\ fb' = [fb EXCEPT !.pc = "fallback",
                      !.uploadError = "Failed to set the 'files' property on 'HTMLInputElement'"]
  /\ UNCHANGED <<nz, eng, ad, ph, uf, st, rq, pr, wt, db, bg, ct>>

\* showPhotoUploadInstructions: a Notification when permission is granted
FbNotify ==
  /\ fb.pc = "fallback"
  /\ fb' = [fb EXCEPT !.pc = "completed", !.notice = "notification"]
  /\ UNCHANGED <<nz, eng, ad, ph, uf, st, rq, pr, wt, db, bg, ct>>

\* showPhotoUploadInstructions: alert(message) otherwise, which blocks
FbAlert ==
  /\ fb.pc = "fallback"
  /\ fb' = [fb EXCEPT !.pc = "alert", !.notice = "alert"]
  /\ UNCHANGED <<nz, eng, ad, ph, uf, st, rq, pr, wt, db, bg, ct>>

\* the user closes the alert
FbAlertDismissed ==
  /\ fb.pc = "alert"
  /\ fb' = [fb EXCEPT !.pc = "completed"]
  /\ UNCHANGED <<nz, eng, ad, ph, uf, st, rq, pr, wt, db, bg, ct>>

\* the steps that the extension's own code and timers take
FbProgram ==
  \/ FbPageReady \/ FbFillForm \/ FbFillThrows \/ FbSkipUpload \/ FbStartUpload
  \/ FbFetch \/ FbNoFiles \/ FbAttach \/ FbNoFileInput \/ FbAttachThrows
  \/ FbNotify \/ FbAlert

\* the steps of the network and of the user
FbEnvironment == FbFetchYieldsFile \/ FbFetchFails \/ FbAlertDismissed

FbNext == FbProgram \/ FbEnvironment

\* The code's own steps are taken when they can be; nothing in the code makes
\* a fetch settle (there is no timeout or abort) or the user close an alert.
SpecAutofill == FbInit /\ [][FbNext]_vars /\ WF_vars(FbProgram)

\* C17: the polling waits end, with the element or with null after the
\* timeout, and so autofillForm always runs to completion or to an error.
C17_AutofillTerminates == <>(fb.pc \in {"completed", "failed"})

\* What does hold: autofillForm ends when every fetch settles and an alert
\* is closed.
SpecAutofillSettling == SpecAutofill /\ WF_vars(FbEnvironment)

\* C18: when the automatic upload failed (no file input, or attaching threw),
\* the photos of the vehicle are downloaded.
C18_UploadFallbackDownloads ==
  (fb.pc = "completed" /\ fb.uploadError # "") => Len(fb.downloads) = Len(fb.photos)

\* C19: the photos given to urlsToFiles are the first maxPhotos of the
\* result, so at most maxPhotos fetches are issued and files attached; no
\* photo is fetched when uploadPhotos is false or the result has no photos.
C19_MaxPhotosBound ==
  /\ fb.pc \notin {"start", "fill", "photos", "failed"} /\ fb.toUpload # <<>>
       => fb.toUpload = [k \in 1..Len(fb.toUpload) |-> fb.photos[k]]
  /\ Len(fb.toUpload) <= fb.maxPhotos
  /\ Len(fb.fetched) <= fb.maxPhotos
  /\ Len(fb.attached) <= fb.maxPhotos
  /\ (~fb.uploadPhotos \/ fb.photos = <<>>) => fb.fetched = <<>>

\* three photos, maxPhotos 2: two were fetched and attached
C19_Witness ==
  /\ fb.pc = "completed" /\ Len(fb.photos) = 3 /\ fb.maxPhotos = 2
  /\ fb.fetched = <<1, 2>> /\ fb.attached = <<1, 2>>

-----------------------------------------------------------------------------
(* Which warnings validation leaves on a returned result *)

WarningSet(result) == {result.warnings[k] : k \in 1..Len(result.warnings)}

\* C20: on a returned result the missing-fields warning is there iff one of
\* year, make, model, price is absent, and names exactly the absent ones; the
\* year, price and mileage warnings are there iff the field is present and
\* out of its range; "No photos found" iff there is no photo.
C20_ValidationCoverage ==
  (eng.pc = "done" /\ eng.outcome = "returned") =>
    LET vehicle == eng.result.vehicle
        warnings == WarningSet(eng.result)
        absent == SelectSeq(requiredFields, LAMBDA f : vehicle[f] = U)
    IN /\ (\E w \in warnings : StartsWith(w, "Missing required fields: "))
            <=> absent # <<>>
       /\ absent # <<>> => ("Missing required fields: " \o Join(absent, ", ")) \in warnings
       /\ "Vehicle year appears out of range" \in warnings
            <=> (vehicle.year # U
                 /\ (vehicle.year.v < MinYear \/ vehicle.year.v > eng.year + 1))
       /\ "Price appears out of normal range" \in warnings
            <=> (vehicle.price # U
                 /\ (vehicle.price.v < MinPrice \/ vehicle.price.v > MaxPrice))
       /\ "Mileage appears out of normal range" \in warnings
            <=> (vehicle.mileage # U
                 /\ (vehicle.mileage.v < 0 \/ vehicle.mileage.v > MaxMileage))
       /\ "No photos found" \in warnings <=> eng.result.photos = <<>>

\* What does hold: the same with "absent" read as the code reads it, a field
\* that is undefined, 0, NaN or "".
ValidationCoverageFalsy ==
  (eng.pc = "done" /\ eng.outcome = "returned") =>
    LET vehicle == eng.result.vehicle
        warnings == WarningSet(eng.result)
        absent == SelectSeq(requiredFields, LAMBDA f : ~Truthy(vehicle[f]))
    IN /\ (\E w \in warnings : StartsWith(w, "Missing required fields: "))
            <=> absent # <<>>
       /\ absent # <<>> => ("Missing required fields: " \o Join(absent, ", ")) \in warnings
       /\ "Vehicle year appears out of range" \in warnings
            <=> (Truthy(vehicle.year)
                 /\ (vehicle.year.v < MinYear \/ vehicle.year.v > eng.year + 1))
       /\ "Price appears out of normal range" \in warnings
            <=> (Truthy(vehicle.price)
                 /\ (vehicle.price.v < MinPrice \/ vehicle.price.v > MaxPrice))
       /\ "Mileage appears out of normal range" \in warnings
            <=> (Truthy(vehicle.mileage)
                 /\ (vehicle.mileage.v < 0 \/ vehicle.mileage.v > MaxMileage))
       /\ "No photos found" \in warnings <=> eng.result.photos = <<>>

-----------------------------------------------------------------------------
(* Properties of extractPhotos on an image with a srcset *)

\* C21: for a document of one matched image with a src and a srcset, there is
\* one photo per distinct URL (the src and every srcset candidate) and the
\* first photo is the srcset candidate of the greatest width.
C21_SrcsetLargestFirst ==
  (/\ ph.pc = "done" /\ ~ph.result.threw
   /\ Len(ph.dom) = 1 /\ MatchedImages(ph.dom, ph.selectors) = {1}
   /\ ph.dom[1].src # "" /\ ph.dom[1].srcset # "") =>
    LET candidates == parseSrcset(ph.dom[1].srcset)
        urls == {cleanImageUrl(makeAbsoluteUrl(ph.dom[1].src))}
                  \cup {cleanImageUrl(makeAbsoluteUrl(candidates[k])) :
                          k \in 1..Len(candidates)}
    IN /\ Len(ph.result.photos) = Cardinality(urls)
       /\ ph.result.photos[1].url = cleanImageUrl(makeAbsoluteUrl(candidates[1]))

\* What does hold: one photo per distinct URL, the photo of the src first.
SrcsetSrcFirst ==
  (/\ ph.pc = "done" /\ ~ph.result.threw
   /\ Len(ph.dom) = 1 /\ MatchedImages(ph.dom, ph.selectors) = {1}
   /\ ph.dom[1].src # "" /\ ph.dom[1].srcset # "") =>
    LET candidates == parseSrcset(ph.dom[1].srcset)
    IN /\ Len(ph.result.photos) = 1 + Len(candidates)
       /\ ph.result.photos[1].url = cleanImageUrl(makeAbsoluteUrl(ph.dom[1].src))
       /\ ph.result.photos[2].url = cleanImageUrl(makeAbsoluteUrl(candidates[1]))
       /\ candidates[1] = "/v/l.jpg"

-----------------------------------------------------------------------------
(* The stored history under operations whose storage reads and writes      *)
(* interleave: two operations may be in flight, each an async function of  *)
(* the background script or of StorageManager                              *)

MaxOps == 3

Procs == {1, 2}

SaveOps == {"background.saveScrapeResult", "StorageManager.saveScrapeResult"}

\* the files importData may be given: an empty history, one over the cap
ImportLists == {<<>>, History(HistoryCap + 1)}

IdleOp == [pc |-> "idle", op |-> "none", item |-> 0, pending |-> <<>>, wrote |-> FALSE]

DbInit ==
  /\ db \in {[store |-> History(n), proc |-> [p \in Procs |-> IdleOp],
              started |-> 0, nextId |-> 100] : n \in {0, HistoryCap - 1, HistoryCap}}
  /\ nz = Off /\ eng = Off /\ ad = Off /\ ph = Off /\ uf = Off /\ st = Off /\ rq = Off
  /\ pr = Off /\ wt = Off /\ fb = Off /\ bg = Off /\ ct = Off

\* can process p begin an operation
DbFree(p) == db.proc[p].pc \in {"idle", "done"} /\ db.started < MaxOps

\* saveScrapeResult(result) is called, by the background script or through
\* StorageManager
DbStartSave(p) ==
  /\ DbFree(p)
  /\ \E op \in SaveOps :
       db' = [db EXCEPT !.proc[p] = [IdleOp EXCEPT !.pc = "get", !.op = op,
                                                    !.item = db.nextId],
                        !.started = @ + 1, !.nextId = @ + 1]
  /\ UNCHANGED <<nz, eng, ad, ph, uf, st, rq, pr, wt, fb, bg, ct>>

\* deleteScrapeResult(id), for the newest or the oldest stored id
DbStartDelete(p) ==
  /\ DbFree(p) /\ db.store # <<>>
  /\ \E id \in {db.store[1], db.store[Len(db.store)]} :
       db' = [db EXCEPT !.proc[p] = [IdleOp EXCEPT !.pc = "get",
                                       !.op = "StorageManager.deleteScrapeResult",
                                       !.item = id],
                        !.started = @ + 1]
  /\ UNCHANGED <<nz, eng, ad, ph, uf, st, rq, pr, wt, fb, bg, ct>>

\* clearScrapeResults(): set({ scrapeResults: [] }) without a read
DbStartClear(p) ==
  /\ DbFree(p)
  /\ db' = [db EXCEPT !.proc[p] = [IdleOp EXCEPT !.pc = "set",
                                     !.op = "StorageManager.clearScrapeResults"],
                      !.started = @ + 1]
  /\ UNCHANGED <<nz, eng, ad, ph, uf, st, rq, pr, wt, fb, bg, ct>>

\* importData(jsonData): the parsed scrapeResults array is set as it is
DbStartImport(p) ==
  /\ DbFree(p)
  /\ \E list \in ImportLists :
       db' = [db EXCEPT !.proc[p] = [IdleOp EXCEPT !.pc = "set",
                                       !.op = "StorageManager.importData",
                                       !.pending = list],
                        !.started = @ + 1]
  /\ UNCHANGED <<nz, eng, ad, ph, uf, st, rq, pr, wt, fb, bg, ct>>

\* chrome.storage.local.get resolves: the list to write is computed from
\* what was read
DbGet(p) ==
  /\ db.proc[p].pc = "get"
  /\ LET op == db.proc[p]
         list == CASE op.op = "background.saveScrapeResult" ->
                        backgroundSave(db.store, op.item)
                   [] op.op = "StorageManager.saveScrapeResult" ->
                        managerSave(db.store, op.item)
                   [] OTHER -> SelectSeq(db.store, LAMBDA id : id # op.item)
     IN db' = [db EXCEPT !.proc[p] = [op EXCEPT !.pc = "set", !.pending = list]]
  /\ UNCHANGED <<nz, eng, ad, ph, uf, st, rq, pr, wt, fb, bg, ct>>

\* chrome.storage.local.set resolves
DbSet(p) ==
  /\ db.proc[p].pc = "set"
  /\ db' = [db EXCEPT !.store = db.proc[p].pending,
                      !.proc[p] = [@ EXCEPT !.pc = "done", !.wrote = TRUE]]
  /\ UNCHANGED <<nz, eng, ad, ph, uf, st, rq, pr, wt, fb, bg, ct>>

\* chrome.storage.local.set rejects: the operation ends, nothing is written
DbSetFails(p) ==
  /\ db.proc[p].pc = "set"
  /\ db' = [db EXCEPT !.proc[p] = [@ EXCEPT !.pc = "done"]]
  /\ UNCHANGED <<nz, eng, ad, ph, uf, st, rq, pr, wt, fb, bg, ct>>

DbNext ==
  \E p \in Procs :
    \/ DbStartSave(p) \/ DbStartDelete(p) \/ DbStartClear(p) \/ DbStartImport(p)
    \/ DbGet(p) \/ DbSet(p) \/ DbSetFails(p)

SpecHistory == DbInit /\ [][DbNext]_vars

StoredIds == {db.store[k] : k \in 1..Len(db.store)}

\* C22: when two saves have both completed their write, and nothing else was
\* done to the store, both results are in the stored history.
C22_NoLostUpdate ==
  (/\ db.started = 2
   /\ \A p \in Procs : /\ db.proc[p].pc = "done" /\ db.proc[p].wrote
                       /\ db.proc[p].op \in SaveOps) =>
    \A p \in Procs : db.proc[p].item \in StoredIds

\* C23: the stored scrapeResults list never holds more than 50 entries.
C23_HistoryCapInvariant == Len(db.store) <= HistoryCap

-----------------------------------------------------------------------------
(* The background script's onMessage listener: one message, the handler it  *)
(* starts, and every sendResponse call the handler makes                    *)

MessageTypes == {"SCRAPE_PAGE", "DOWNLOAD_PHOTOS", "OPEN_FACEBOOK_MARKETPLACE"}

\* message.photos of DOWNLOAD_PHOTOS: missing, or up to two URLs
PhotoLists ==
  {U} \cup {[t |-> "list", v |-> urls] :
             urls \in {<<>>, <<"https://cdn.dealer.com/v/1.jpg">>,
                       <<"https://cdn.dealer.com/v/1.jpg",
                         "https://cdn.dealer.com/v/2.jpg">>}}

\* the listener's arguments: sender.tab?.id, message.photos, message.scrapeResult
BgInit ==
  /\ bg \in {[pc |-> "received", type |-> type, tabId |-> tabId, photos |-> photos,
              scrapeResult |-> r, store |-> History(n), tab |-> NoResult,
              settled |-> 0, responses |-> <<>>] :
               type \in MessageTypes, tabId \in {U, N(7)}, photos \in PhotoLists,
               r \in RequestResults, n \in {0, HistoryCap}}
  /\ nz = Off /\ eng = Off /\ ad = Off /\ ph = Off /\ uf = Off /\ st = Off /\ rq = Off
  /\ pr = Off /\ wt = Off /\ fb = Off /\ db = Off /\ ct = Off

\* handleScrapeRequest: if (!tabId) sendResponse({ error: 'No active tab' })
BgScrapeNoTab ==
  /\ bg.pc = "received" /\ bg.type = "SCRAPE_PAGE" /\ ~Truthy(bg.tabId)
  /\ bg' = [bg EXCEPT !.pc = "done", !.responses = Append(@, [error |-> "No active tab"])]
  /\ UNCHANGED <<nz, eng, ad, ph, uf, st, rq, pr, wt, fb, db, ct>>

\* executeScript rejects: the catch answers 'Failed to scrape page: ...'
BgScrapeScriptRejects ==
  /\ bg.pc = "received" /\ bg.type = "SCRAPE_PAGE" /\ Truthy(bg.tabId)
  /\ bg' = [bg EXCEPT !.pc = "done",
                      !.responses = Append(@, [error |-> "Failed to scrape page: "
                                                  \o "Cannot access contents of the page"])]
  /\ UNCHANGED <<nz, eng, ad, ph, uf, st, rq, pr, wt, fb, db, ct>>

\* executeScript resolves without a result
BgScrapeNoData ==
  /\ bg.pc = "received" /\ bg.type = "SCRAPE_PAGE" /\ Truthy(bg.tabId)
  /\ bg' = [bg EXCEPT !.pc = "done",
                      !.responses = Append(@, [error |-> "No data scraped from this page"])]
  /\ UNCHANGED <<nz, eng, ad, ph, uf, st, rq, pr, wt, fb, db, ct>>

\* executeScript resolves with a result: saveScrapeResult (which swallows a
\* failed write), then sendResponse({ success: true, result })
BgScrapeSaves ==
  /\ bg.pc = "received" /\ bg.type = "SCRAPE_PAGE" /\ Truthy(bg.tabId)
  /\ \E written \in BOOLEAN :
       bg' = [bg EXCEPT !.pc = "done",
                        !.store = IF written THEN backgroundSave(@, bg.scrapeResult.key)
                                  ELSE @,
                        !.responses = Append(@, [success |-> TRUE,
                                                 result |-> bg.scrapeResult.key])]
  /\ UNCHANGED <<nz, eng, ad, ph, uf, st, rq, pr, wt, fb, db, ct>>

\* handlePhotoDownload: photos.map throws on a message without photos
BgDownloadNoPhotos ==
  /\ bg.pc = "received" /\ bg.type = "DOWNLOAD_PHOTOS" /\ bg.photos = U
  /\ bg' = [bg EXCEPT !.pc = "done",
                      !.responses = Append(@, [error |-> "Failed to download photos: "
                                  \o "Cannot read properties of undefined (reading 'map')"])]
  /\ UNCHANGED <<nz, eng, ad, ph, uf, st, rq, pr, wt, fb, db, ct>>

\* handlePhotoDownload: chrome.downloads.download is called for every photo
BgDownloadStarts ==
  /\ bg.pc = "received" /\ bg.type = "DOWNLOAD_PHOTOS" /\ bg.photos # U
  /\ bg' = [bg EXCEPT !.pc = "downloading"]
  /\ UNCHANGED <<nz, eng, ad, ph, uf, st, rq, pr, wt, fb, db, ct>>

\* one more download resolves
BgDownloadResolves ==
  /\ bg.pc = "downloading" /\ bg.settled < Len(bg.photos.v)
  /\ bg' = [bg EXCEPT !.settled = @ + 1]
  /\ UNCHANGED <<nz, eng, ad, ph, uf, st, rq, pr, wt, fb, db, ct>>

\* a download rejects: Promise.all rejects, the catch answers
BgDownloadRejects ==
  /\ bg.pc = "downloading" /\ bg.settled < Len(bg.photos.v)
  /\ bg' = [bg EXCEPT !.pc = "done",
                      !.responses = Append(@, [error |-> "Failed to download photos: "
                                                           \o "Invalid URL"])]
  /\ UNCHANGED <<nz, eng, ad, ph, uf, st, rq, pr, wt, fb, db, ct>>

\* Promise.all resolves: sendResponse({ success: true, count })
BgDownloadDone ==
  /\ bg.pc = "downloading" /\ bg.settled = Len(bg.photos.v)
  /\ bg' = [bg EXCEPT !.pc = "done",
                      !.responses = Append(@, [success |-> TRUE,
                                               count |-> Len(bg.photos.v)])]
  /\ UNCHANGED <<nz, eng, ad, ph, uf, st, rq, pr, wt, fb, db, ct>>

\* handleFacebookOpen: chrome.tabs.create rejects
BgTabCreateRejects ==
  /\ bg.pc = "received" /\ bg.type = "OPEN_FACEBOOK_MARKETPLACE"
  /\ bg' = [bg EXCEPT !.pc = "done",
                      !.responses = Append(@, [error |-> "Failed to open Facebook "
                                                 \o "Marketplace: No current window"])]
  /\ UNCHANGED <<nz, eng, ad, ph, uf, st, rq, pr, wt, fb, db, ct>>

\* chrome.tabs.create resolves, with or without tab.id; setTimeout(..., 2000)
BgTabCreated ==
  /\ bg.pc = "received" /\ bg.type = "OPEN_FACEBOOK_MARKETPLACE"
  /\ \E id \in {U, N(9)} : bg' = [bg EXCEPT !.pc = "timer", !.tab = [id |-> id]]
  /\ UNCHANGED <<nz, eng, ad, ph, uf, st, rq, pr, wt, fb, db, ct>>

\* the timer's callback with a tab id: executeScript resolves
BgInjected ==
  /\ bg.pc = "timer" /\ Truthy(bg.tab.id)
  /\ bg' = [bg EXCEPT !.pc = "done",
                      !.responses = Append(@, [success |-> TRUE, tabId |-> bg.tab.id.v])]
  /\ UNCHANGED <<nz, eng, ad, ph, uf, st, rq, pr, wt, fb, db, ct>>

\* the timer's callback with a tab id: executeScript rejects
BgInjectRejects ==
  /\ bg.pc = "timer" /\ Truthy(bg.tab.id)
  /\ bg' = [bg EXCEPT !.pc = "done",
                      !.responses = Append(@, [error |-> "Failed to prepare autofill data"])]
  /\ UNCHANGED <<nz, eng, ad, ph, uf, st, rq, pr, wt, fb, db, ct>>

\* the timer's callback without a tab id: if (tab.id) has no else
BgNoTabId ==
  /\ bg.pc = "timer" /\ ~Truthy(bg.tab.id)
  /\ bg' = [bg EXCEPT !.pc = "done"]
  /\ UNCHANGED <<nz, eng, ad, ph, uf, st, rq, pr, wt, fb, db, ct>>

BgNext ==
  \/ BgScrapeNoTab \/ BgScrapeScriptRejects \/ BgScrapeNoData \/ BgScrapeSaves
  \/ BgDownloadNoPhotos \/ BgDownloadStarts \/ BgDownloadResolves
  \/ BgDownloadRejects \/ BgDownloadDone
  \/ BgTabCreateRejects \/ BgTabCreated \/ BgInjected \/ BgInjectRejects \/ BgNoTabId

SpecBackground == BgInit /\ [][BgNext]_vars

\* C24: when the handler of a SCRAPE_PAGE, DOWNLOAD_PHOTOS or
\* OPEN_FACEBOOK_MARKETPLACE message has finished, exactly one response was
\* sent, and never more than one before.
C24_ExactlyOneResponse ==
  /\ Len(bg.responses) <= 1
  /\ bg.pc = "done" => Len(bg.responses) = 1

\* What does hold: at most one response, and exactly one unless the created
\* tab has no id.
OneResponseUnlessNoTabId ==
  /\ Len(bg.responses) <= 1
  /\ (bg.pc = "done" /\ ~(bg.tab # NoResult /\ ~Truthy(bg.tab.id)))
       => Len(bg.responses) = 1

-----------------------------------------------------------------------------
(* The content script on one page: initialize() at load, again after every  *)
(* URL change of a single-page site, the payload the background script      *)
(* injects into a marketplace tab, and the autofills that are started       *)

MaxUrlChanges == 2
MaxMessages == 1

\* the payload injected as window.vehicleAutofillData, and the payload of an
\* AUTOFILL_VEHICLE_DATA window message
InjectedPayload == 1
MessagePayload == 2

\* initialize() of content.ts on the page in state c
initialize(c) ==
  IF c.kind = "facebook"
  THEN \* initializeFacebookAutofill: window.vehicleAutofillData is read now,
       \* setTimeout(autofillForm, 3000) when it is set; a listener is added
       [c EXCEPT !.autofiller = TRUE,
                 !.autofillTimers = IF c.data # 0 THEN @ + 1 ELSE @,
                 !.listeners = @ + 1]
  ELSE \* initializeVehicleScraping: window.vehicleScraper, addScrapeIndicator
       [c EXCEPT !.engine = TRUE,
                 !.indicators = IF c.vehiclePage THEN @ + 1 ELSE @]

\* a marketplace tab (opened by handleFacebookOpen or by the user) or a page
\* of a scraping site
CtInit ==
  /\ ct \in {[kind |-> kind, handoff |-> handoff, vehiclePage |-> vehiclePage,
              loaded |-> FALSE, autofiller |-> FALSE, engine |-> FALSE,
              data |-> 0, injected |-> FALSE, listeners |-> 0, autofillTimers |-> 0,
              initTimers |-> 0, autofills |-> <<>>, indicators |-> 0,
              urlChanges |-> 0, messages |-> 0] :
               kind \in {"facebook", "scraper"}, handoff \in BOOLEAN,
               vehiclePage \in BOOLEAN}
  /\ ct.handoff => ct.kind = "facebook"
  /\ ct.vehiclePage => ct.kind = "scraper"
  /\ nz = Off /\ eng = Off /\ ad = Off /\ ph = Off /\ uf = Off /\ st = Off /\ rq = Off
  /\ pr = Off /\ wt = Off /\ fb = Off /\ db = Off /\ bg = Off

\* the content script runs: initialize(), at once or on DOMContentLoaded
CtScriptLoads ==
  /\ ~ct.loaded
  /\ ct' = [initialize(ct) EXCEPT !.loaded = TRUE]
  /\ UNCHANGED <<nz, eng, ad, ph, uf, st, rq, pr, wt, fb, db, bg>>

\* handleFacebookOpen's timer: executeScript sets window.vehicleAutofillData
\* in the new tab, and success is answered
CtInject ==
  /\ ct.handoff /\ ~ct.injected
  /\ ct' = [ct EXCEPT !.data = InjectedPayload, !.injected = TRUE]
  /\ UNCHANGED <<nz, eng, ad, ph, uf, st, rq, pr, wt, fb, db, bg>>

\* the 3000 ms timer of initializeFacebookAutofill: autofillForm(autofillData)
CtAutofillTimer ==
  /\ ct.autofillTimers > 0
  /\ ct' = [ct EXCEPT !.autofillTimers = @ - 1,
                      !.autofills = Append(@, InjectedPayload)]
  /\ UNCHANGED <<nz, eng, ad, ph, uf, st, rq, pr, wt, fb, db, bg>>

\* the MutationObserver sees a new URL: setTimeout(initialize, 1000)
CtUrlChange ==
  /\ ct.loaded /\ ct.urlChanges < MaxUrlChanges
  /\ \E vehiclePage \in (IF ct.kind = "scraper" THEN BOOLEAN ELSE {FALSE}) :
       ct' = [ct EXCEPT !.urlChanges = @ + 1, !.initTimers = @ + 1,
                        !.vehiclePage = vehiclePage]
  /\ UNCHANGED <<nz, eng, ad, ph, uf, st, rq, pr, wt, fb, db, bg>>

\* the 1000 ms timer of the observer: initialize()
CtInitTimer ==
  /\ ct.initTimers > 0
  /\ ct' = [initialize(ct) EXCEPT !.initTimers = @ - 1]
  /\ UNCHANGED <<nz, eng, ad, ph, uf, st, rq, pr, wt, fb, db, bg>>

\* case 'PAGE_LOADED': initialize() unless an engine or autofiller exists
CtPageLoaded ==
  /\ ct.loaded /\ ct.kind = "scraper"
  /\ ct' = IF ~ct.engine /\ ~ct.autofiller THEN initialize(ct) ELSE ct
  /\ UNCHANGED <<nz, eng, ad, ph, uf, st, rq, pr, wt, fb, db, bg>>

\* a window message AUTOFILL_VEHICLE_DATA: every listener that was added
\* calls autofillForm(event.data.scrapeResult)
CtWindowMessage ==
  /\ ct.kind = "facebook" /\ ct.messages < MaxMessages
  /\ ct' = [ct EXCEPT !.messages = @ + 1,
                      !.autofills = @ \o [k \in 1..ct.listeners |-> MessagePayload]]
  /\ UNCHANGED <<nz, eng, ad, ph, uf, st, rq, pr, wt, fb, db, bg>>

\* the steps of the extension's code and timers
CtProgram == CtScriptLoads \/ CtInject \/ CtAutofillTimer \/ CtInitTimer

\* the steps of the page, the user and other scripts
CtEnvironment == CtUrlChange \/ CtPageLoaded \/ CtWindowMessage

CtNext == CtProgram \/ CtEnvironment

\* The content script runs, the executeScript of the hand-off is done and
\* timers fire; nothing makes the page change its URL or post a message.
SpecContent == CtInit /\ [][CtNext]_vars /\ WF_vars(CtProgram)

\* how many times autofillForm was started with payload
Started(payload) == Cardinality({k \in 1..Len(ct.autofills) : ct.autofills[k] = payload})

\* C25: once the payload has been injected into the marketplace tab (and
\* success answered), autofillForm is eventually started with it.
C25_PayloadHandOff == ct.injected ~> (Started(InjectedPayload) > 0)

\* What does hold: the payload is picked up when it is injected before the
\* content script initializes; afterwards only a URL change picks it up.
HandOffBeforeInitialize ==
  (ct.injected /\ ~ct.loaded) ~> (Started(InjectedPayload) > 0)

\* C26: one delivered payload starts autofillForm at most once, and a page
\* holds at most one 'Scrapable' indicator.
C26_SingleAutofill ==
  /\ Started(InjectedPayload) <= 1
  /\ Started(MessagePayload) <= 1
  /\ ct.indicators <= 1

\* What does hold: without a URL change after load, each payload starts at
\* most one autofill and there is at most one indicator.
SingleAutofillWithoutUrlChange ==
  ct.urlChanges = 0 =>
    /\ Started(InjectedPayload) <= 1
    /\ Started(MessagePayload) <= 1
    /\ ct.indicators <= 1

-----------------------------------------------------------------------------
(* Properties of the background script's answer to SCRAPE_PAGE *)

\* C27: the background script answers SCRAPE_PAGE with success only when the
\* result is in the stored history: a failed write gives an error response.
C27_SuccessImpliesPersisted ==
  (rq.pc = "done" /\ rq.type = "SCRAPE_PAGE" /\ "success" \in DOMAIN rq.response) =>
    \E k \in 1..Len(rq.store) : rq.store[k] = rq.response.result.key


-----------------------------------------------------------------------------
(* ScrapingEngine.isVehiclePage, the test addScrapeIndicator makes *)

\* An isVehiclePage that asks only the site adapter of the hostname, and the
\* generic heuristics on the hosts no site adapter knows.
engineIsVehiclePage_ByHostname(url) ==
  LET hostname == HostnameOf(url)
      known == {k \in 1..Len(SiteAdapters) :
                  matchesHostname(hostname, hostnames(SiteAdapters[k]))}
  IN IF known # {}
     THEN isVehiclePage(SiteAdapters[CHOOSE k \in known : \A j \in known : k <= j], url)
     ELSE isVehiclePage("Generic", url)

\* ScrapingEngine.isVehiclePage(url): the found adapter's isVehiclePage, or
\* the generic adapter's when findAdapter returns null.
engineIsVehiclePage(url) ==
  LET hostname == HostnameOf(url)
      adapter == findAdapter(hostname, url)
  IN IF adapter # "none" THEN isVehiclePage(adapter, url)
     ELSE isVehiclePage("Generic", url)

NoIndicatorNoAdapter ==
  ~(/\ eng.pc = "done" /\ ~engineIsVehiclePage(eng.url)
    /\ eng.error = "No suitable adapter found for this site")


-----------------------------------------------------------------------------
(* The VIN of a result an adapter returns *)

\* the adapter returned a ScrapeResult
AdReturned == ad.pc = "done" /\ ad.outcome = "returned"

\* the engine's validation would append 'VIN format appears invalid'
VinFormatWarned ==
  \E y \in ClockYears :
    \E k \in 1..Len(validationWarnings(ad.result, y)) :
      validationWarnings(ad.result, y)[k] = "VIN format appears invalid"

\* a VIN was scraped and normalizeVehicleData dropped it
VinDropped == Truthy(ad.c.vehicle.vin) /\ ad.result.vehicle.vin = U

NoVinWarning ==
  \A k \in 1..Len(ad.result.warnings) : ~Includes(ad.result.warnings[k], "VIN")

\* C28: in every result an adapter returns, vehicle.vin is absent or exactly
\* 17 characters of [A-HJ-NPR-Z0-9]; the engine's 'VIN format appears
\* invalid' warning is never appended, and a scraped VIN dropped for its
\* length leaves no VIN-related warning.
C28_VinShape ==
  AdReturned =>
    /\ ad.result.vehicle.vin = U \/ vinRegexTest(ad.result.vehicle.vin.v)
    /\ ~VinFormatWarned
    /\ VinDropped => NoVinWarning

\* What does hold: the VIN is falsy (absent or the empty string) or has the
\* 17-character shape, and the two consequences about warnings.
VinShapeOrFalsy ==
  AdReturned =>
    /\ ~Truthy(ad.result.vehicle.vin) \/ vinRegexTest(ad.result.vehicle.vin.v)
    /\ ~VinFormatWarned
    /\ VinDropped => NoVinWarning

====
